---- MODULE Spec2Model ----
(***************************************************************************)
(* gokiq: a Go worker that pops Sidekiq job records from Redis lists and   *)
(* hands them to a ConcurrentProcessor, which admits each job through a    *)
(* channel-based Semaphore and runs it in its own goroutine.               *)
(*                                                                         *)
(* The specifications:                                                     *)
(*   Spec        the worker: producer, poll loop (main.go), ProcessJob,    *)
(*               the spawned job goroutines, signal handling and Shutdown; *)
(*   FairSpec    Spec with the scheduling of the Go runtime;               *)
(*   ReentrySpec Spec plus a second Shutdown call once the processor has   *)
(*               stopped running;                                          *)
(*   SemSpec     the Semaphore alone, driven by concurrent client tasks    *)
(*               that call Acquire, TryAcquire, Release and Wait;          *)
(*   MisuseSpec  SemSpec plus Release calls by tasks that hold no token;   *)
(*   SidecarSpec the sidecar HTTPClient and its CircuitBreaker, driven by  *)
(*               concurrent ExecuteJob calls and a clock;                  *)
(*   GrpcSpec    the sidecar GRPCClient, driven the same way;              *)
(*   StoreSpec   the redis Client: PollJobs, EnqueueRetry and MoveToDLQ    *)
(*               called one after the other on a store that producers      *)
(*               write to;                                                 *)
(*   SweepSpec   the redis Client: GetScheduledJobs and                    *)
(*               MoveScheduledToQueue on a schedule set that producers     *)
(*               write to;                                                 *)
(*   FieldSpec   the worker of FairSpec on such a store.                   *)
(* Every goroutine is a program counter; one action is one atomic step of  *)
(* the Go code (a channel operation, a critical section under the mutex,   *)
(* a WaitGroup operation).                                                 *)
(***************************************************************************)
EXTENDS Integers, Sequences, FiniteSets, TLC

(***************************************************************************)
(* Bounds of the model.                                                    *)
(***************************************************************************)
\* worker.concurrency, the capacity handed to NewSemaphore
Capacity == 1
\* s.capacity, as Semaphore.Capacity() returns it: NewSemaphore replaces a
\* capacity <= 0 by 1 and makes the channel with that many slots
SemCapacity == IF Capacity <= 0 THEN 1 ELSE Capacity
\* number of job records the producer pushes
NJobs == 2
\* retry.max_attempts: the retry budget of a job (default 25)
MaxAttempts == 25
\* number of client tasks that use the semaphore directly in SemSpec
NTasks == 3

\* number of goroutines that call HTTPClient.ExecuteJob concurrently
NCallers == 2
\* the maxFailures and resetTimeout handed to NewCircuitBreaker (clock ticks)
MaxFailures == 2
ResetTimeout == 2
\* the last tick of the clock
MaxClock == 4
\* the maxRetries ExecuteJob hands to executeWithRetry
MaxRetries == 3
\* DEAD_CAP, the number of entries MoveToDLQ keeps in dead (10000), scaled
DeadCap == 1
\* the retry count up to which the caller of EnqueueRetry is followed
RetryBound == 1
\* the list length up to which promotions are followed
MaxQueueLen == NJobs

Jobs == 1..NJobs
Callers == 1..NCallers
Tasks == 1..NTasks
\* the retry counts of the records that reach the lists: a fresh record and
\* one whose budget is used up
RetryVals == {0, MaxAttempts}

\* worker.queues, in priority order
QueueNames == <<"default">>
QueueSet == {QueueNames[i] : i \in 1..Len(QueueNames)}

\* no record (a nil *SidekiqJob); failed_at = 0 is an absent failed_at
Nil == [jid |-> 0, queue |-> "", retry |-> 0, failed_at |-> 0]

(***************************************************************************)
(* Payloads and the record type.  A payload is the string stored in a      *)
(* list or sorted set; besides the fields of SidekiqJob that the model     *)
(* follows it carries                                                      *)
(*   extra  the fields SidekiqJob does not declare ("" when there are      *)
(*          none),                                                         *)
(*   form   "go" when the bytes are what json.Marshal writes for the       *)
(*          record, "alt" for valid JSON written otherwise (key order,     *)
(*          spacing, escapes, number format), "invalid" when               *)
(*          json.Unmarshal into SidekiqJob fails.                          *)
(***************************************************************************)
\* no payload (an empty jobJSON)
NoPayload ==
  [jid |-> 0, queue |-> "", retry |-> 0, failed_at |-> 0,
   extra |-> "", form |-> "go"]

\* json.Unmarshal([]byte(jobJSON), &sidekiqJob) succeeds
Decodes(p) == p.form # "invalid"

\* json.Unmarshal: the declared fields are read, everything else is dropped
Decode(p) ==
  [jid |-> p.jid, queue |-> p.queue, retry |-> p.retry,
   failed_at |-> p.failed_at]

\* json.Marshal(job): the declared fields, in Go's formatting
Encode(job) ==
  [jid |-> job.jid, queue |-> job.queue, retry |-> job.retry,
   failed_at |-> job.failed_at, extra |-> "", form |-> "go"]

VARIABLES
  \* ---- Semaphore (semaphore.go) ----
  ch,          \* number of tokens buffered in s.ch
  active,      \* s.active
  swg,         \* counter of s.wg
  \* ---- ConcurrentProcessor (processor.go) ----
  running,     \* cp.running
  cpCancelled, \* cp.ctx has been cancelled
  pwg,         \* counter of cp.wg
  task,        \* task[j]: position of the goroutine spawned for job j
  held,        \* held[j]: the record that goroutine holds (its job argument)
  outcome,     \* outcome[j]: the outcome executeJob logged for job j
  \* ---- Redis store ----
  queue,       \* queue[q]: the list queue:<q>, head (left end) first
  schedule,    \* members of the sorted set "schedule"
  dead,        \* members of the sorted set "dead"
  pushed,      \* where producers put their records, in order: pushed[j]
               \* is the list jid j was left-pushed onto, or "schedule"
  \* ---- poll loop goroutine (main.go 59-87) ----
  lpc,         \* position of the loop
  cur,         \* the record PollJobs returned to the loop
  popped,      \* the jobs PollJobs has returned, in order: <<jid, queue>>
  dropped,     \* number of payloads PollJobs popped and could not decode
  submit,      \* submit[j]: what ProcessJob returned for job j
  \* ---- main goroutine (main.go 89-99) and Shutdown ----
  mainCancelled, \* main's ctx has been cancelled
  mpc,         \* position of main / Shutdown
  wpc,         \* position of Shutdown's waiter goroutine
  sdRes,       \* what Shutdown returned
  sdAdmitted,  \* the jobs ProcessJob had admitted when Shutdown was called
  \* ---- client tasks of SemSpec ----
  tpc,         \* tpc[t]: position of client task t
  tctx,        \* tctx[t]: the context task t passes to Acquire is cancelled
  \* ---- a task that calls Semaphore.Wait / WaitWithTimeout ----
  waitpc,      \* position of that task
  waitSaw,     \* the tasks that held a token when it called Wait
  waitRes,     \* what WaitWithTimeout has returned: "none" | "true" | "false"
  \* ---- CircuitBreaker (sidecar client) ----
  cbState,     \* cb.state
  cbFailures,  \* cb.failures
  cbLastFail,  \* cb.lastFailTime
  cbStreak,    \* RecordFailure calls since the last RecordSuccess (history)
  now,         \* the clock, time.Now()
  \* ---- goroutines calling HTTPClient.ExecuteJob ----
  xpc,         \* xpc[c]: position of caller c
  attempt,     \* attempt[c]: the loop variable of executeWithRetry
  sent,        \* sent[c]: requests the call in progress has sent so far
  lastResp,    \* lastResp[c]: the answer to the request sent last
  xret,        \* xret[c]: what the caller's last ExecuteJob call returned
  gStreak,     \* failed GRPCClient.ExecuteJob calls in a row (history)
  \* ---- a caller of the redis Client's functions ----
  cjob,        \* the *SidekiqJob the caller holds (Nil: none)
  cjson,       \* the payload PollJobs popped for it (history)
  cerr,        \* what the caller's last call returned: "none", "nil", "err"
  cpc,         \* the caller's position: "idle", "dlq_trim" inside MoveToDLQ,
               \* "sweep_lpush" inside MoveScheduledToQueue
  cdue,        \* the jobs of the caller's last GetScheduledJobs not yet moved
  \* ---- a second call of ConcurrentProcessor.Shutdown ----
  sdAgain      \* what it returned: "none" (not made), "ok"

semVars == <<ch, active, swg>>
procVars == <<running, cpCancelled, pwg, task, held, outcome>>
storeVars == <<queue, schedule, dead, pushed>>
loopVars == <<lpc, cur, popped, dropped, submit>>
mainVars == <<mainCancelled, mpc, wpc, sdRes, sdAdmitted>>
clientVars == <<tpc, tctx>>
waitVars == <<waitpc, waitSaw, waitRes>>
breakerVars == <<cbState, cbFailures, cbLastFail, cbStreak, now>>
callVars == <<xpc, attempt, sent, lastResp, xret>>
grpcVars == <<gStreak>>
callerVars == <<cjob, cjson, cerr, cpc, cdue>>
againVars == <<sdAgain>>
vars == <<ch, active, swg, running, cpCancelled, pwg, task, held, outcome,
          queue, schedule, dead, pushed, lpc, cur, popped, dropped,
          submit,
          mainCancelled, mpc, wpc, sdRes, sdAdmitted, tpc, tctx,
          waitpc, waitSaw, waitRes, cbState, cbFailures, cbLastFail,
          cbStreak, now,
          xpc, attempt, sent, lastResp, xret, gStreak, cjob, cjson, cerr, cpc, cdue,
          sdAgain>>

(***************************************************************************)
(* Semaphore steps (semaphore.go).                                         *)
(***************************************************************************)
\* a send that does not wait for room in the buffer
SemSend_Unbounded == ch' = ch + 1

\* case s.ch <- struct{}{}: the send succeeds when the buffer has room
SemSend ==
  /\ ch < SemCapacity
  /\ ch' = ch + 1

\* an Acquire that counts the holder and does not add to the wait group
SemCommit_NoWgAdd ==
  /\ active' = active + 1
  /\ UNCHANGED swg

\* s.mu.Lock(); s.active++; s.wg.Add(1); s.mu.Unlock()
SemCommit ==
  /\ active' = active + 1
  /\ swg' = swg + 1

\* case <-s.ch: the receive succeeds when a token is buffered
SemRecv ==
  /\ ch > 0
  /\ ch' = ch - 1

\* s.mu.Lock(); s.active--; s.mu.Unlock()
SemDec == active' = active - 1

\* s.wg.Done().  sync.WaitGroup: when the counter reaches 0 while a Wait is
\* blocked, the waiter is released; it resumes in a later step of its own.
SemWgDone ==
  /\ swg' = swg - 1
  /\ wpc' = IF swg = 1 /\ wpc = "swg_blocked" THEN "swg_woken" ELSE wpc
  /\ waitpc' = IF swg = 1 /\ waitpc = "waiting" THEN "woken" ELSE waitpc

\* ActiveCount(): s.active read under the read lock
ActiveCount == active

\* a Wait that does not wait for the counter of s.wg
SemWaitReady_NoWait == TRUE

\* Wait(): s.wg.Wait() returns at once when the counter of s.wg is 0;
\* otherwise the caller registers as a waiter and blocks
SemWaitReady == swg = 0

\* the worker process is running: main (main.go 17-100) has not returned
\* and no goroutine has panicked.  When main returns or a goroutine panics
\* the process ends, and every goroutine with it.
Alive == mpc \notin {"exited", "crashed"}

\* s.wg.Wait() panicked in a program that uses the semaphore on its own:
\* that program is dead, its tasks take no further step
WaitPanicked == waitpc = "panicked"

(***************************************************************************)
(* Initial state: NewSemaphore, NewConcurrentProcessor, empty store.       *)
(***************************************************************************)
BaseInit ==
  /\ ch = 0 /\ active = 0 /\ swg = 0
  /\ running = TRUE /\ cpCancelled = FALSE /\ pwg = 0
  /\ task = [j \in Jobs |-> "none"]
  /\ held = [j \in Jobs |-> Nil]
  /\ outcome = [j \in Jobs |-> "none"]
  /\ queue = [q \in QueueSet |-> <<>>]
  /\ schedule = {} /\ dead = {}
  /\ pushed = <<>>
  /\ lpc = "select" /\ cur = Nil /\ popped = <<>> /\ dropped = 0
  /\ submit = [j \in Jobs |-> "none"]
  /\ mainCancelled = FALSE /\ mpc = "wait_signal" /\ wpc = "none"
  /\ sdRes = "none" /\ sdAdmitted = {}
  /\ tpc = [t \in Tasks |-> "idle"]
  /\ tctx = [t \in Tasks |-> FALSE]
  /\ waitpc = "idle" /\ waitSaw = {} /\ waitRes = "none"
  /\ cbState = "closed" /\ cbFailures = 0 /\ cbLastFail = 0
  /\ cbStreak = 0 /\ now = 0
  /\ xpc = [c \in Callers |-> "idle"]
  /\ attempt = [c \in Callers |-> 0]
  /\ sent = [c \in Callers |-> 0]
  /\ lastResp = [c \in Callers |-> "none"]
  /\ xret = [c \in Callers |-> "none"]
  /\ gStreak = 0
  /\ cjob = Nil /\ cjson = NoPayload /\ cerr = "none" /\ cpc = "idle"
  /\ cdue = {}
  /\ sdAgain = "none"

Init == BaseInit

(***************************************************************************)
(* Producer (enqueue_jobs.rb): redis.lpush('queue:default', job.to_json).  *)
(* jids are handed out in push order.  The retry field is the one a record *)
(* carries when it reaches the list (0 for a fresh record, more for a      *)
(* record that was queued again after failed attempts).                    *)
(***************************************************************************)
LPush(list, member) == <<member>> \o list

Enqueue(q, r) ==
  /\ Len(pushed) < NJobs
  /\ LET j == Len(pushed) + 1
         payload == [jid |-> j, queue |-> q, retry |-> r, failed_at |-> 0,
                     extra |-> "", form |-> "go"]
     IN /\ queue' = [queue EXCEPT ![q] = LPush(@, payload)]
        /\ pushed' = Append(pushed, q)
  /\ UNCHANGED <<schedule, dead>>
  /\ UNCHANGED <<semVars, procVars, loopVars, mainVars, clientVars>>
  /\ UNCHANGED <<waitVars, breakerVars, callVars>>
  /\ UNCHANGED <<grpcVars, callerVars>>
  /\ UNCHANGED againVars

\* the benchmark scripts' clear_queues: redis.del('queue:default').  The
\* payloads on the list are gone, popped by nobody.
ClearQueues ==
  /\ queue' = [queue EXCEPT !["default"] = <<>>]
  /\ UNCHANGED <<schedule, dead, pushed>>
  /\ UNCHANGED <<semVars, procVars, loopVars, mainVars, clientVars>>
  /\ UNCHANGED <<waitVars, breakerVars, callVars>>
  /\ UNCHANGED <<grpcVars, callerVars>>
  /\ UNCHANGED againVars

(***************************************************************************)
(* Client.PollJobs (redis client): BLPOP over queue:<q> in the order of    *)
(* worker.queues; the first non-empty list wins and loses its left end.    *)
(***************************************************************************)
NonEmptyIdx == {i \in 1..Len(QueueNames) : queue[QueueNames[i]] # <<>>}

FirstNonEmpty ==
  QueueNames[CHOOSE i \in NonEmptyIdx : \A k \in NonEmptyIdx : i <= k]

\* the element BLPOP removes from a list, and the list it leaves
BLPopElem(list) == Head(list)
BLPopRest(list) == Tail(list)

(***************************************************************************)
(* The poll loop of main (main.go 59-87).                                  *)
(***************************************************************************)
\* select { case <-ctx.Done(): return; default: ... }
LoopSelect ==
  /\ Alive
  /\ lpc = "select"
  /\ lpc' = IF mainCancelled THEN "exited" ELSE "poll"
  /\ UNCHANGED <<cur, popped, dropped, submit>>
  /\ UNCHANGED <<semVars, procVars, storeVars, mainVars, clientVars>>
  /\ UNCHANGED <<waitVars, breakerVars, callVars>>
  /\ UNCHANGED <<grpcVars, callerVars>>
  /\ UNCHANGED againVars

\* a poll loop that ends when PollJobs cannot decode what it popped
PollJob_StopsOnBadPayload ==
  /\ Alive
  /\ lpc = "poll"
  /\ NonEmptyIdx # {}
  /\ LET q == FirstNonEmpty
         jobJSON == BLPopElem(queue[q])
     IN /\ queue' = [queue EXCEPT ![q] = BLPopRest(@)]
        /\ IF Decodes(jobJSON)
             THEN /\ cur' = Decode(jobJSON)
                  /\ popped' = Append(popped, <<jobJSON.jid, jobJSON.queue>>)
                  /\ lpc' = "pj_check"
                  /\ UNCHANGED dropped
             ELSE /\ UNCHANGED <<cur, popped>>
                  /\ dropped' = dropped + 1
                  /\ lpc' = "exited"
  /\ UNCHANGED <<schedule, dead, pushed, submit>>
  /\ UNCHANGED <<semVars, procVars, mainVars, clientVars>>
  /\ UNCHANGED <<waitVars, breakerVars, callVars>>
  /\ UNCHANGED <<grpcVars, callerVars>>
  /\ UNCHANGED againVars

\* PollJobs pops a payload.  When it decodes, PollJobs returns the job and
\* the loop goes on to processor.ProcessJob; when it does not, PollJobs
\* returns an error (the payload is gone from the list) and the loop backs
\* off for 1s
PollJob ==
  /\ Alive
  /\ lpc = "poll"
  /\ NonEmptyIdx # {}
  /\ LET q == FirstNonEmpty
         jobJSON == BLPopElem(queue[q])
     IN /\ queue' = [queue EXCEPT ![q] = BLPopRest(@)]
        /\ IF Decodes(jobJSON)
             THEN /\ cur' = Decode(jobJSON)
                  /\ popped' = Append(popped, <<jobJSON.jid, jobJSON.queue>>)
                  /\ lpc' = "pj_check"
                  /\ UNCHANGED dropped
             ELSE /\ UNCHANGED <<cur, popped>>
                  /\ dropped' = dropped + 1
                  /\ lpc' = "sleep_err"
  /\ UNCHANGED <<schedule, dead, pushed, submit>>
  /\ UNCHANGED <<semVars, procVars, mainVars, clientVars>>
  /\ UNCHANGED <<waitVars, breakerVars, callVars>>
  /\ UNCHANGED <<grpcVars, callerVars>>
  /\ UNCHANGED againVars

\* BLPOP timed out (redis.Nil): PollJobs returns nil, nil and the loop
\* sleeps PollInterval
PollNil ==
  /\ Alive
  /\ lpc = "poll"
  /\ NonEmptyIdx = {}
  /\ lpc' = "sleep_idle"
  /\ UNCHANGED <<cur, popped, dropped, submit>>
  /\ UNCHANGED <<semVars, procVars, storeVars, mainVars, clientVars>>
  /\ UNCHANGED <<waitVars, breakerVars, callVars>>
  /\ UNCHANGED <<grpcVars, callerVars>>
  /\ UNCHANGED againVars

\* the store call failed: PollJobs returns an error, nothing was popped,
\* and the loop backs off for 1s
PollErr ==
  /\ Alive
  /\ lpc = "poll"
  /\ lpc' = "sleep_err"
  /\ UNCHANGED <<cur, popped, dropped, submit>>
  /\ UNCHANGED <<semVars, procVars, storeVars, mainVars, clientVars>>
  /\ UNCHANGED <<waitVars, breakerVars, callVars>>
  /\ UNCHANGED <<grpcVars, callerVars>>
  /\ UNCHANGED againVars

\* time.Sleep returns; continue
LoopWake ==
  /\ Alive
  /\ lpc \in {"sleep_idle", "sleep_err"}
  /\ lpc' = "select"
  /\ UNCHANGED <<cur, popped, dropped, submit>>
  /\ UNCHANGED <<semVars, procVars, storeVars, mainVars, clientVars>>
  /\ UNCHANGED <<waitVars, breakerVars, callVars>>
  /\ UNCHANGED <<grpcVars, callerVars>>
  /\ UNCHANGED againVars

(***************************************************************************)
(* ConcurrentProcessor.ProcessJob (processor.go), called by the loop.      *)
(* When it returns an error the loop only logs it and goes on (main.go     *)
(* 80-84): the record the loop held is not written back anywhere.          *)
(***************************************************************************)
\* a ProcessJob that goes on to Acquire without looking at cp.running
PJCheck_NoRunningCheck ==
  /\ Alive
  /\ lpc = "pj_check"
  /\ lpc' = "pj_acquire"
  /\ UNCHANGED <<cur, popped, dropped, submit>>
  /\ UNCHANGED <<semVars, procVars, storeVars, mainVars, clientVars>>
  /\ UNCHANGED <<waitVars, breakerVars, callVars>>
  /\ UNCHANGED <<grpcVars, callerVars>>
  /\ UNCHANGED againVars

\* cp.mu.RLock(); if !cp.running { return error }
PJCheck ==
  /\ Alive
  /\ lpc = "pj_check"
  /\ IF running
       THEN /\ lpc' = "pj_acquire"
            /\ UNCHANGED <<cur, submit>>
       ELSE /\ submit' = [submit EXCEPT ![cur.jid] = "err_shutdown"]
            /\ cur' = Nil
            /\ lpc' = "select"
  /\ UNCHANGED <<popped, dropped>>
  /\ UNCHANGED <<semVars, procVars, storeVars, mainVars, clientVars>>
  /\ UNCHANGED <<waitVars, breakerVars, callVars>>
  /\ UNCHANGED <<grpcVars, callerVars>>
  /\ UNCHANGED againVars

\* an admission that does not wait for a free slot
PJAcquireSend_NoBlock ==
  /\ Alive
  /\ lpc = "pj_acquire"
  /\ ch' = ch + 1
  /\ lpc' = "pj_commit"
  /\ UNCHANGED <<active, swg, cur, popped, dropped, submit>>
  /\ UNCHANGED <<procVars, storeVars, mainVars, clientVars>>
  /\ UNCHANGED <<waitVars, breakerVars, callVars>>
  /\ UNCHANGED <<grpcVars, callerVars>>
  /\ UNCHANGED againVars

\* Acquire(cp.ctx), case s.ch <- struct{}{}
PJAcquireSend ==
  /\ Alive
  /\ lpc = "pj_acquire"
  /\ SemSend
  /\ lpc' = "pj_commit"
  /\ UNCHANGED <<active, swg, cur, popped, dropped, submit>>
  /\ UNCHANGED <<procVars, storeVars, mainVars, clientVars>>
  /\ UNCHANGED <<waitVars, breakerVars, callVars>>
  /\ UNCHANGED <<grpcVars, callerVars>>
  /\ UNCHANGED againVars

\* Acquire(cp.ctx), case <-ctx.Done(): ProcessJob returns an error
PJAcquireCancelled ==
  /\ Alive
  /\ lpc = "pj_acquire"
  /\ cpCancelled
  /\ submit' = [submit EXCEPT ![cur.jid] = "err_cancelled"]
  /\ cur' = Nil
  /\ lpc' = "select"
  /\ UNCHANGED <<popped, dropped>>
  /\ UNCHANGED <<semVars, procVars, storeVars, mainVars, clientVars>>
  /\ UNCHANGED <<waitVars, breakerVars, callVars>>
  /\ UNCHANGED <<grpcVars, callerVars>>
  /\ UNCHANGED againVars

\* Acquire: the critical section after the send; Acquire returns true
PJCommit ==
  /\ Alive
  /\ lpc = "pj_commit"
  /\ SemCommit
  /\ lpc' = "pj_spawn"
  /\ UNCHANGED <<ch, cur, popped, dropped, submit>>
  /\ UNCHANGED <<procVars, storeVars, mainVars, clientVars>>
  /\ UNCHANGED <<waitVars, breakerVars, callVars>>
  /\ UNCHANGED <<grpcVars, callerVars>>
  /\ UNCHANGED againVars

\* ProcessJob returning nil without starting the goroutine
PJSpawn_SkipsJob ==
  /\ Alive
  /\ lpc = "pj_spawn"
  /\ submit' = [submit EXCEPT ![cur.jid] = "ok"]
  /\ cur' = Nil
  /\ lpc' = "select"
  /\ UNCHANGED <<running, cpCancelled, pwg, task, held, outcome>>
  /\ UNCHANGED <<popped, dropped>>
  /\ UNCHANGED <<semVars, storeVars, mainVars, clientVars>>
  /\ UNCHANGED <<waitVars, breakerVars, callVars>>
  /\ UNCHANGED <<grpcVars, callerVars>>
  /\ UNCHANGED againVars

\* cp.wg.Add(1); go func() {...}(); return nil.  The new goroutine goes
\* straight into executeJob and calls cp.executor.ExecuteJob(job).
PJSpawn ==
  /\ Alive
  /\ lpc = "pj_spawn"
  /\ pwg' = pwg + 1
  /\ task' = [task EXCEPT ![cur.jid] = "exec"]
  /\ held' = [held EXCEPT ![cur.jid] = cur]
  /\ submit' = [submit EXCEPT ![cur.jid] = "ok"]
  /\ cur' = Nil
  /\ lpc' = "select"
  /\ UNCHANGED <<running, cpCancelled, outcome, popped, dropped>>
  /\ UNCHANGED <<semVars, storeVars, mainVars, clientVars>>
  /\ UNCHANGED <<waitVars, breakerVars, callVars>>
  /\ UNCHANGED <<grpcVars, callerVars>>
  /\ UNCHANGED againVars

(***************************************************************************)
(* The goroutine ProcessJob spawns: executeJob, then the deferred          *)
(* cp.semaphore.Release() and cp.wg.Done(), in that order.                 *)
(***************************************************************************)
\* what ExecuteJob can return: a result with status success, a result with
\* status failure, or an error (transport error, circuit open)
Outcomes == {"success", "failure", "error"}

\* the line executeJob logs: "Job execution completed" for a success result,
\* "Job execution failed" in the two other branches
Logged(o) == IF o = "success" THEN "completed" ELSE "failed"

\* a job goroutine that gives its token back only after a success
ExecuteJobReturns_FailureSkipsRelease(j, o) ==
  /\ Alive
  /\ task[j] = "exec"
  /\ outcome' = [outcome EXCEPT ![j] = Logged(o)]
  /\ task' = [task EXCEPT ![j] = IF o = "success" THEN "release" ELSE "pwg_done"]
  /\ UNCHANGED <<running, cpCancelled, pwg, held>>
  /\ UNCHANGED <<semVars, storeVars, loopVars, mainVars, clientVars>>
  /\ UNCHANGED <<waitVars, breakerVars, callVars>>
  /\ UNCHANGED <<grpcVars, callerVars>>
  /\ UNCHANGED againVars

\* executeJob: ExecuteJob returns; the outcome is logged and executeJob
\* returns without touching the store
ExecuteJobReturns(j, o) ==
  /\ Alive
  /\ task[j] = "exec"
  /\ outcome' = [outcome EXCEPT ![j] = Logged(o)]
  /\ task' = [task EXCEPT ![j] = "release"]
  /\ UNCHANGED <<running, cpCancelled, pwg, held>>
  /\ UNCHANGED <<semVars, storeVars, loopVars, mainVars, clientVars>>
  /\ UNCHANGED <<waitVars, breakerVars, callVars>>
  /\ UNCHANGED <<grpcVars, callerVars>>
  /\ UNCHANGED againVars

\* Release: select { case <-s.ch: ...; default: } -- a token is taken when
\* one is buffered, otherwise Release does nothing
TaskReleaseRecv(j) ==
  /\ Alive
  /\ task[j] = "release"
  /\ IF ch > 0
       THEN /\ SemRecv
            /\ task' = [task EXCEPT ![j] = "rel_dec"]
       ELSE /\ UNCHANGED ch
            /\ task' = [task EXCEPT ![j] = "pwg_done"]
  /\ UNCHANGED <<active, swg, running, cpCancelled, pwg, held, outcome>>
  /\ UNCHANGED <<storeVars, loopVars, mainVars, clientVars>>
  /\ UNCHANGED <<waitVars, breakerVars, callVars>>
  /\ UNCHANGED <<grpcVars, callerVars>>
  /\ UNCHANGED againVars

\* Release: s.active-- under the mutex
TaskReleaseDec(j) ==
  /\ Alive
  /\ task[j] = "rel_dec"
  /\ SemDec
  /\ task' = [task EXCEPT ![j] = "rel_wg"]
  /\ UNCHANGED <<ch, swg, running, cpCancelled, pwg, held, outcome>>
  /\ UNCHANGED <<storeVars, loopVars, mainVars, clientVars>>
  /\ UNCHANGED <<waitVars, breakerVars, callVars>>
  /\ UNCHANGED <<grpcVars, callerVars>>
  /\ UNCHANGED againVars

\* Release: s.wg.Done()
TaskReleaseWg(j) ==
  /\ Alive
  /\ task[j] = "rel_wg"
  /\ SemWgDone
  /\ task' = [task EXCEPT ![j] = "pwg_done"]
  /\ UNCHANGED <<ch, active, running, cpCancelled, pwg, held, outcome>>
  /\ UNCHANGED <<mainCancelled, mpc, sdRes, sdAdmitted>>
  /\ UNCHANGED <<storeVars, loopVars, clientVars>>
  /\ UNCHANGED <<waitSaw, waitRes, breakerVars, callVars>>
  /\ UNCHANGED <<grpcVars, callerVars>>
  /\ UNCHANGED againVars

\* deferred cp.wg.Done(); the goroutine ends and lets go of its record.
\* When the counter of cp.wg reaches 0 a blocked Wait is released.
TaskDone(j) ==
  /\ Alive
  /\ task[j] = "pwg_done"
  /\ pwg' = pwg - 1
  /\ wpc' = IF pwg = 1 /\ wpc = "pwg_blocked" THEN "pwg_woken" ELSE wpc
  /\ task' = [task EXCEPT ![j] = "finished"]
  /\ held' = [held EXCEPT ![j] = Nil]
  /\ UNCHANGED <<running, cpCancelled, outcome>>
  /\ UNCHANGED <<mainCancelled, mpc, sdRes, sdAdmitted>>
  /\ UNCHANGED <<semVars, storeVars, loopVars, clientVars>>
  /\ UNCHANGED <<waitVars, breakerVars, callVars>>
  /\ UNCHANGED <<grpcVars, callerVars>>
  /\ UNCHANGED againVars

TaskStep(j) ==
  \/ \E o \in Outcomes : ExecuteJobReturns(j, o)
  \/ TaskReleaseRecv(j)
  \/ TaskReleaseDec(j)
  \/ TaskReleaseWg(j)
  \/ TaskDone(j)

(***************************************************************************)
(* main (main.go 89-99) and ConcurrentProcessor.Shutdown (processor.go).   *)
(***************************************************************************)
\* sig := <-sigChan; cancel()
Signal ==
  /\ mpc = "wait_signal"
  /\ mainCancelled' = TRUE
  /\ mpc' = "sd_flag"
  /\ UNCHANGED <<wpc, sdRes, sdAdmitted>>
  /\ UNCHANGED <<semVars, procVars, storeVars, loopVars, clientVars>>
  /\ UNCHANGED <<waitVars, breakerVars, callVars>>
  /\ UNCHANGED <<grpcVars, callerVars>>
  /\ UNCHANGED againVars

\* Shutdown: cp.mu.Lock(); if !cp.running { return nil }; cp.running = false
ShutdownFlag ==
  /\ mpc = "sd_flag"
  /\ sdAdmitted' = {j \in Jobs : submit[j] = "ok"}
  /\ IF running
       THEN /\ running' = FALSE
            /\ mpc' = "sd_cancel"
            /\ UNCHANGED sdRes
       ELSE /\ sdRes' = "ok"
            /\ mpc' = "returned"
            /\ UNCHANGED running
  /\ UNCHANGED <<cpCancelled, pwg, task, held, outcome, mainCancelled, wpc>>
  /\ UNCHANGED <<semVars, storeVars, loopVars, clientVars>>
  /\ UNCHANGED <<waitVars, breakerVars, callVars>>
  /\ UNCHANGED <<grpcVars, callerVars>>
  /\ UNCHANGED againVars

\* Shutdown: cp.cancel(); go func() { cp.wg.Wait(); ... }(); select {...}
ShutdownCancel ==
  /\ mpc = "sd_cancel"
  /\ cpCancelled' = TRUE
  /\ wpc' = "pwg_wait"
  /\ mpc' = "sd_select"
  /\ UNCHANGED <<running, pwg, task, held, outcome, mainCancelled, sdRes, sdAdmitted>>
  /\ UNCHANGED <<semVars, storeVars, loopVars, clientVars>>
  /\ UNCHANGED <<waitVars, breakerVars, callVars>>
  /\ UNCHANGED <<grpcVars, callerVars>>
  /\ UNCHANGED againVars

\* waiter goroutine: cp.wg.Wait() is called.  It returns at once when the
\* counter of cp.wg is 0; otherwise the goroutine registers as a waiter of
\* the WaitGroup and blocks.
WaiterProcWait ==
  /\ Alive
  /\ wpc = "pwg_wait"
  /\ wpc' = IF pwg = 0 THEN "swg_wait" ELSE "pwg_blocked"
  /\ UNCHANGED <<mainCancelled, mpc, sdRes, sdAdmitted>>
  /\ UNCHANGED <<semVars, procVars, storeVars, loopVars, clientVars>>
  /\ UNCHANGED <<waitVars, breakerVars, callVars>>
  /\ UNCHANGED <<grpcVars, callerVars>>
  /\ UNCHANGED againVars

\* waiter goroutine: released by the Done that brought cp.wg to 0, it goes
\* on in cp.wg.Wait().  sync.WaitGroup panics when the counter has been
\* raised again in between ("WaitGroup is reused before previous Wait has
\* returned", or the Add itself panics with "Add called concurrently with
\* Wait"): ProcessJob's cp.wg.Add(1) is not ordered after Shutdown's Wait.
\* The panic is in a goroutine nobody recovers, so the process dies.
WaiterProcResume ==
  /\ Alive
  /\ wpc = "pwg_woken"
  /\ IF pwg = 0
     THEN wpc' = "swg_wait" /\ UNCHANGED mpc
     ELSE mpc' = "crashed" /\ UNCHANGED wpc
  /\ UNCHANGED <<mainCancelled, sdRes, sdAdmitted>>
  /\ UNCHANGED <<semVars, procVars, storeVars, loopVars, clientVars>>
  /\ UNCHANGED <<waitVars, breakerVars, callVars>>
  /\ UNCHANGED <<grpcVars, callerVars>>
  /\ UNCHANGED againVars

\* waiter goroutine: cp.semaphore.Wait() is called, that is s.wg.Wait().  It
\* returns at once when the counter of s.wg is 0, and then close(done);
\* otherwise the goroutine registers as a waiter of s.wg and blocks.
WaiterSemWait ==
  /\ Alive
  /\ wpc = "swg_wait"
  /\ wpc' = IF SemWaitReady THEN "closed" ELSE "swg_blocked"
  /\ UNCHANGED <<mainCancelled, mpc, sdRes, sdAdmitted>>
  /\ UNCHANGED <<semVars, procVars, storeVars, loopVars, clientVars>>
  /\ UNCHANGED <<waitVars, breakerVars, callVars>>
  /\ UNCHANGED <<grpcVars, callerVars>>
  /\ UNCHANGED againVars

\* waiter goroutine: released by the Done that brought s.wg to 0, it goes on
\* in s.wg.Wait() and closes done, or panics when an Acquire has raised the
\* counter again in between
WaiterSemResume ==
  /\ Alive
  /\ wpc = "swg_woken"
  /\ IF swg = 0
     THEN wpc' = "closed" /\ UNCHANGED mpc
     ELSE mpc' = "crashed" /\ UNCHANGED wpc
  /\ UNCHANGED <<mainCancelled, sdRes, sdAdmitted>>
  /\ UNCHANGED <<semVars, procVars, storeVars, loopVars, clientVars>>
  /\ UNCHANGED <<waitVars, breakerVars, callVars>>
  /\ UNCHANGED <<grpcVars, callerVars>>
  /\ UNCHANGED againVars

\* Shutdown, case <-done: return nil
ShutdownDone ==
  /\ mpc = "sd_select"
  /\ wpc = "closed"
  /\ sdRes' = "ok"
  /\ mpc' = "returned"
  /\ UNCHANGED <<mainCancelled, wpc, sdAdmitted>>
  /\ UNCHANGED <<semVars, procVars, storeVars, loopVars, clientVars>>
  /\ UNCHANGED <<waitVars, breakerVars, callVars>>
  /\ UNCHANGED <<grpcVars, callerVars>>
  /\ UNCHANGED againVars

\* Shutdown, case <-time.After(timeout): return the timeout error.  The
\* goroutines of the jobs are left alone.
ShutdownTimeout ==
  /\ mpc = "sd_select"
  /\ sdRes' = "timeout"
  /\ mpc' = "returned"
  /\ UNCHANGED <<mainCancelled, wpc, sdAdmitted>>
  /\ UNCHANGED <<semVars, procVars, storeVars, loopVars, clientVars>>
  /\ UNCHANGED <<waitVars, breakerVars, callVars>>
  /\ UNCHANGED <<grpcVars, callerVars>>
  /\ UNCHANGED againVars

\* main: log.Println("Worker stopped"); main returns and the process ends.
\* The poll loop, the job goroutines and Shutdown's waiter goroutine stop
\* where they are.  (A caller of Shutdown other than main, such as the
\* tests of the processor, may go on instead: nothing forces this step.)
MainReturn ==
  /\ mpc = "returned"
  /\ mpc' = "exited"
  /\ UNCHANGED <<mainCancelled, wpc, sdRes, sdAdmitted>>
  /\ UNCHANGED <<semVars, procVars, storeVars, loopVars, clientVars>>
  /\ UNCHANGED <<waitVars, breakerVars, callVars>>
  /\ UNCHANGED <<grpcVars, callerVars>>
  /\ UNCHANGED againVars

\* IsRunning(): cp.running read under the read lock
IsRunning == running

\* ActiveJobs(): cp.semaphore.ActiveCount()
ActiveJobs == ActiveCount

LoopStep ==
  \/ LoopSelect
  \/ LoopWake
  \/ PJCheck
  \/ PJAcquireSend
  \/ PJAcquireCancelled
  \/ PJCommit
  \/ PJSpawn

ShutdownStep ==
  \/ ShutdownFlag
  \/ ShutdownCancel
  \/ WaiterProcWait
  \/ WaiterProcResume
  \/ WaiterSemWait
  \/ WaiterSemResume
  \/ ShutdownDone

Next ==
  \/ \E q \in QueueSet, r \in RetryVals : Enqueue(q, r)
  \/ ClearQueues
  \/ PollJob
  \/ PollNil
  \/ PollErr
  \/ LoopStep
  \/ \E j \in Jobs : TaskStep(j)
  \/ Signal
  \/ ShutdownStep
  \/ ShutdownTimeout
  \/ MainReturn

Spec == Init /\ [][Next]_vars

(***************************************************************************)
(* ReentrySpec: Spec plus a second call of Shutdown, made once the first   *)
(* one has cleared the running flag (while it drains, or after it has      *)
(* returned).                                                              *)
(***************************************************************************)
\* Shutdown: cp.mu.Lock(); if !cp.running { cp.mu.Unlock(); return nil }
ShutdownAgain ==
  /\ mpc \in {"sd_cancel", "sd_select", "returned"}
  /\ ~running
  /\ sdAgain = "none"
  /\ sdAgain' = "ok"
  /\ UNCHANGED <<semVars, procVars, storeVars, loopVars, mainVars>>
  /\ UNCHANGED <<clientVars, waitVars, breakerVars, callVars>>
  /\ UNCHANGED <<grpcVars, callerVars>>

ReentryNext ==
  \/ Next
  \/ ShutdownAgain

ReentrySpec == Init /\ [][ReentryNext]_vars

(***************************************************************************)
(* The scheduling the Go runtime gives: a goroutine that can take a step   *)
(* eventually takes it.  Executor calls are assumed to return (they are    *)
(* bounded by the per-request timeout).  Nothing forces the producer, a    *)
(* signal, a store error or the shutdown deadline to happen, nor the       *)
(* caller of Shutdown to end the process; once the process has ended no    *)
(* goroutine can take a step.                                              *)
(***************************************************************************)
FairSpec ==
  /\ Spec
  /\ \A j \in Jobs : WF_vars(TaskStep(j))
  /\ WF_vars(LoopStep)
  /\ WF_vars(ShutdownStep)

(***************************************************************************)
(* SemSpec: client tasks calling the Semaphore directly.  A task releases  *)
(* only a token it acquired before.                                        *)
(***************************************************************************)
\* the task calls Acquire(ctx) and stands in its select
ClientAcquire(t) ==
  /\ ~WaitPanicked
  /\ tpc[t] = "idle"
  /\ tpc' = [tpc EXCEPT ![t] = "acquire"]
  /\ UNCHANGED tctx
  /\ UNCHANGED <<semVars, procVars, storeVars, loopVars, mainVars>>
  /\ UNCHANGED <<waitVars, breakerVars, callVars>>
  /\ UNCHANGED <<grpcVars, callerVars>>
  /\ UNCHANGED againVars

\* an Acquire whose send does not wait for room in the buffer
ClientAcquireSend_NoRoomCheck(t) ==
  /\ ~WaitPanicked
  /\ tpc[t] = "acquire"
  /\ ch' = ch + 1
  /\ tpc' = [tpc EXCEPT ![t] = "commit"]
  /\ UNCHANGED <<active, swg, tctx>>
  /\ UNCHANGED <<procVars, storeVars, loopVars, mainVars>>
  /\ UNCHANGED <<waitVars, breakerVars, callVars>>
  /\ UNCHANGED <<grpcVars, callerVars>>
  /\ UNCHANGED againVars

\* Acquire, case s.ch <- struct{}{}
ClientAcquireSend(t) ==
  /\ ~WaitPanicked
  /\ tpc[t] = "acquire"
  /\ SemSend
  /\ tpc' = [tpc EXCEPT ![t] = "commit"]
  /\ UNCHANGED <<active, swg, tctx>>
  /\ UNCHANGED <<procVars, storeVars, loopVars, mainVars>>
  /\ UNCHANGED <<waitVars, breakerVars, callVars>>
  /\ UNCHANGED <<grpcVars, callerVars>>
  /\ UNCHANGED againVars

\* Acquire, case <-ctx.Done(): return false
ClientAcquireCancelled(t) ==
  /\ ~WaitPanicked
  /\ tpc[t] = "acquire"
  /\ tctx[t]
  /\ tpc' = [tpc EXCEPT ![t] = "idle"]
  /\ UNCHANGED tctx
  /\ UNCHANGED <<semVars, procVars, storeVars, loopVars, mainVars>>
  /\ UNCHANGED <<waitVars, breakerVars, callVars>>
  /\ UNCHANGED <<grpcVars, callerVars>>
  /\ UNCHANGED againVars

\* TryAcquire: the send when there is room, else default: return false
ClientTryAcquire(t) ==
  /\ ~WaitPanicked
  /\ tpc[t] = "idle"
  /\ IF ch < SemCapacity
       THEN /\ SemSend
            /\ tpc' = [tpc EXCEPT ![t] = "commit"]
       ELSE /\ UNCHANGED ch
            /\ UNCHANGED tpc
  /\ UNCHANGED <<active, swg, tctx>>
  /\ UNCHANGED <<procVars, storeVars, loopVars, mainVars>>
  /\ UNCHANGED <<waitVars, breakerVars, callVars>>
  /\ UNCHANGED <<grpcVars, callerVars>>
  /\ UNCHANGED againVars

\* Acquire / TryAcquire: the critical section after the send; return true
ClientCommit(t) ==
  /\ ~WaitPanicked
  /\ tpc[t] = "commit"
  /\ SemCommit
  /\ tpc' = [tpc EXCEPT ![t] = "held"]
  /\ UNCHANGED <<ch, tctx>>
  /\ UNCHANGED <<procVars, storeVars, loopVars, mainVars>>
  /\ UNCHANGED <<waitVars, breakerVars, callVars>>
  /\ UNCHANGED <<grpcVars, callerVars>>
  /\ UNCHANGED againVars

\* Release by a task that holds a token: case <-s.ch when a token is
\* buffered, else default (Release returns and nothing has changed; the
\* channel is empty only after another task's Release took the token)
ClientReleaseRecv(t) ==
  /\ ~WaitPanicked
  /\ tpc[t] = "held"
  /\ IF ch > 0
       THEN /\ SemRecv
            /\ tpc' = [tpc EXCEPT ![t] = "rel_dec"]
       ELSE /\ UNCHANGED ch
            /\ tpc' = [tpc EXCEPT ![t] = "idle"]
  /\ UNCHANGED <<active, swg, tctx>>
  /\ UNCHANGED <<procVars, storeVars, loopVars, mainVars>>
  /\ UNCHANGED <<waitVars, breakerVars, callVars>>
  /\ UNCHANGED <<grpcVars, callerVars>>
  /\ UNCHANGED againVars

\* Release: s.active-- under the mutex
ClientReleaseDec(t) ==
  /\ ~WaitPanicked
  /\ tpc[t] = "rel_dec"
  /\ SemDec
  /\ tpc' = [tpc EXCEPT ![t] = "rel_wg"]
  /\ UNCHANGED <<ch, swg, tctx>>
  /\ UNCHANGED <<procVars, storeVars, loopVars, mainVars>>
  /\ UNCHANGED <<waitVars, breakerVars, callVars>>
  /\ UNCHANGED <<grpcVars, callerVars>>
  /\ UNCHANGED againVars

\* Release: s.wg.Done(); Release returns
ClientReleaseWg(t) ==
  /\ ~WaitPanicked
  /\ tpc[t] = "rel_wg"
  /\ SemWgDone
  /\ tpc' = [tpc EXCEPT ![t] = "idle"]
  /\ UNCHANGED <<ch, active, tctx>>
  /\ UNCHANGED <<mainCancelled, mpc, sdRes, sdAdmitted>>
  /\ UNCHANGED <<procVars, storeVars, loopVars>>
  /\ UNCHANGED <<waitSaw, waitRes, breakerVars, callVars>>
  /\ UNCHANGED <<grpcVars, callerVars>>
  /\ UNCHANGED againVars

\* the owner of the task's context cancels it
ClientCancel(t) ==
  /\ ~WaitPanicked
  /\ ~tctx[t]
  /\ tctx' = [tctx EXCEPT ![t] = TRUE]
  /\ UNCHANGED tpc
  /\ UNCHANGED <<semVars, procVars, storeVars, loopVars, mainVars>>
  /\ UNCHANGED <<waitVars, breakerVars, callVars>>
  /\ UNCHANGED <<grpcVars, callerVars>>
  /\ UNCHANGED againVars

\* a task calls Wait or WaitWithTimeout.  s.wg.Wait() is entered in a later
\* step: by the caller in Wait, by the goroutine WaitWithTimeout starts.
SemWaitCall ==
  /\ ~WaitPanicked
  /\ waitpc = "idle"
  /\ waitpc' = "called"
  /\ waitSaw' = {t \in Tasks : tpc[t] = "held"}
  /\ UNCHANGED waitRes
  /\ UNCHANGED <<semVars, procVars, storeVars, loopVars, mainVars>>
  /\ UNCHANGED <<clientVars, breakerVars, callVars>>
  /\ UNCHANGED <<grpcVars, callerVars>>
  /\ UNCHANGED againVars

\* s.wg.Wait() is entered: it returns at once when the counter of s.wg is
\* 0 (in WaitWithTimeout the goroutine then closes done); otherwise the
\* caller registers as a waiter of s.wg and blocks.
SemWaitEnter ==
  /\ ~WaitPanicked
  /\ waitpc = "called"
  /\ waitpc' = IF SemWaitReady THEN "returned" ELSE "waiting"
  /\ UNCHANGED <<waitSaw, waitRes>>
  /\ UNCHANGED <<semVars, procVars, storeVars, loopVars, mainVars>>
  /\ UNCHANGED <<clientVars, breakerVars, callVars>>
  /\ UNCHANGED <<grpcVars, callerVars>>
  /\ UNCHANGED againVars

\* s.wg.Wait() goes on after the Done that brought the counter to 0 released
\* it and returns (in WaitWithTimeout the goroutine then closes done).
\* sync.WaitGroup panics when an Acquire has raised the counter again in
\* between.
SemWaitReturn ==
  /\ ~WaitPanicked
  /\ waitpc = "woken"
  /\ waitpc' = IF swg = 0 THEN "returned" ELSE "panicked"
  /\ UNCHANGED <<waitSaw, waitRes>>
  /\ UNCHANGED <<semVars, procVars, storeVars, loopVars, mainVars>>
  /\ UNCHANGED <<clientVars, breakerVars, callVars>>
  /\ UNCHANGED <<grpcVars, callerVars>>
  /\ UNCHANGED againVars

\* WaitWithTimeout, case <-done: return true
SemWaitDone ==
  /\ ~WaitPanicked
  /\ waitpc = "returned"
  /\ waitRes = "none"
  /\ waitRes' = "true"
  /\ UNCHANGED <<waitpc, waitSaw>>
  /\ UNCHANGED <<semVars, procVars, storeVars, loopVars, mainVars>>
  /\ UNCHANGED <<clientVars, breakerVars, callVars>>
  /\ UNCHANGED <<grpcVars, callerVars>>
  /\ UNCHANGED againVars

\* WaitWithTimeout, case <-time.After(timeout): return false.  The timer
\* can fire at any moment after the call, whatever the goroutine has done:
\* with done closed as well, the select takes either case.  The goroutine
\* stays where it is in s.wg.Wait().
SemWaitTimeout ==
  /\ ~WaitPanicked
  /\ waitpc # "idle"
  /\ waitRes = "none"
  /\ waitRes' = "false"
  /\ UNCHANGED <<waitpc, waitSaw>>
  /\ UNCHANGED <<semVars, procVars, storeVars, loopVars, mainVars>>
  /\ UNCHANGED <<clientVars, breakerVars, callVars>>
  /\ UNCHANGED <<grpcVars, callerVars>>
  /\ UNCHANGED againVars

SemNext ==
  \/ \E t \in Tasks :
       \/ ClientAcquire(t)
       \/ ClientAcquireSend(t)
       \/ ClientAcquireCancelled(t)
       \/ ClientTryAcquire(t)
       \/ ClientCommit(t)
       \/ ClientReleaseRecv(t)
       \/ ClientReleaseDec(t)
       \/ ClientReleaseWg(t)
       \/ ClientCancel(t)
  \/ SemWaitCall
  \/ SemWaitEnter
  \/ SemWaitReturn
  \/ SemWaitDone
  \/ SemWaitTimeout

SemSpec == Init /\ [][SemNext]_vars

(***************************************************************************)
(* MisuseSpec: SemSpec plus tasks that call Release without holding a      *)
(* token.  The Release they run is the same code: it takes whatever token  *)
(* is buffered.  s.wg.Done() on a counter that is 0 panics ("sync:         *)
(* negative WaitGroup counter") and the program stops.                     *)
(***************************************************************************)
\* Release by a task that holds no token: case <-s.ch when a token is
\* buffered, else default (nothing happens)
ClientUnpairedRelease(t) ==
  /\ ~WaitPanicked
  /\ tpc[t] = "idle"
  /\ IF ch > 0
       THEN /\ SemRecv
            /\ tpc' = [tpc EXCEPT ![t] = "rel_dec"]
       ELSE /\ UNCHANGED ch
            /\ UNCHANGED tpc
  /\ UNCHANGED <<active, swg, tctx>>
  /\ UNCHANGED <<procVars, storeVars, loopVars, mainVars>>
  /\ UNCHANGED <<waitVars, breakerVars, callVars>>
  /\ UNCHANGED <<grpcVars, callerVars>>
  /\ UNCHANGED againVars

\* the counter of s.wg went below 0: WaitGroup.Done panicked
Panicked == swg < 0

MisuseNext ==
  \/ ~Panicked /\ SemNext
  \/ \E t \in Tasks : ~Panicked /\ ClientUnpairedRelease(t)

MisuseSpec == Init /\ [][MisuseNext]_vars


(***************************************************************************)
(* CircuitBreaker (sidecar client).  Each method runs under cb.mu, so it   *)
(* is one atomic step.                                                     *)
(***************************************************************************)
\* time.Since(cb.lastFailTime) > cb.resetTimeout
ResetElapsed == now - cbLastFail > ResetTimeout

\* an AllowRequest that lets every request through
AllowRequest_AlwaysAllows == TRUE

\* what AllowRequest returns
AllowRequest ==
  \/ cbState = "closed"
  \/ cbState = "half_open"
  \/ cbState = "open" /\ ResetElapsed

\* the state AllowRequest leaves: open becomes half_open once the reset
\* timeout has passed
AllowRequestState ==
  IF cbState = "open" /\ ResetElapsed THEN "half_open" ELSE cbState

\* a RecordSuccess that closes the breaker and leaves the count alone
RecordSuccess_KeepsCount ==
  /\ cbState' = "closed"
  /\ cbStreak' = 0
  /\ UNCHANGED <<cbFailures, cbLastFail>>

\* a RecordSuccess that resets the count and leaves the state alone
RecordSuccess_KeepsState ==
  /\ cbFailures' = 0
  /\ cbStreak' = 0
  /\ UNCHANGED <<cbState, cbLastFail>>

\* RecordSuccess: cb.failures = 0; cb.state = StateClosed
RecordSuccess ==
  /\ cbFailures' = 0
  /\ cbState' = "closed"
  /\ cbStreak' = 0
  /\ UNCHANGED cbLastFail

\* a RecordFailure that never opens the breaker
RecordFailure_NeverOpens ==
  /\ cbFailures' = cbFailures + 1
  /\ cbLastFail' = now
  /\ cbStreak' = cbStreak + 1
  /\ UNCHANGED cbState

\* RecordFailure: cb.failures++; cb.lastFailTime = time.Now(); the state
\* becomes open when failures >= maxFailures
RecordFailure ==
  /\ cbFailures' = cbFailures + 1
  /\ cbLastFail' = now
  /\ cbStreak' = cbStreak + 1
  /\ cbState' = IF cbFailures + 1 >= MaxFailures THEN "open" ELSE cbState

\* GetState()
GetState == cbState

(***************************************************************************)
(* HTTPClient.ExecuteJob and executeWithRetry (sidecar client).  What one  *)
(* httpClient.Do can give back:                                            *)
(*   conn_err     Do returned an error (connection failure, timeout) or    *)
(*                the response body could not be read                      *)
(*   s5xx, s4xx   a response with status >= 500, resp. 400..499            *)
(*   ok_success   a 2xx response whose body decodes, status = success      *)
(*   ok_failure   a 2xx response whose body decodes, status = failure      *)
(*   ok_garbage   a 2xx response whose body json.Unmarshal rejects         *)
(*   s3xx_success, s3xx_failure, s3xx_garbage                              *)
(*                the same three for a response with a status below 400    *)
(*                that is not 2xx (a 3xx the client hands back, a 1xx):    *)
(*                executeWithRetry tests only >= 500 and >= 400 and        *)
(*                parses the body of every other response                  *)
(* The requests of one call touch nothing another goroutine reads, so the  *)
(* last request of a call and the RecordSuccess / RecordFailure that       *)
(* follows it are one step.                                                *)
(***************************************************************************)
Responses ==
  {"conn_err", "s5xx", "s4xx", "ok_success", "ok_failure", "ok_garbage",
   "s3xx_success", "s3xx_failure", "s3xx_garbage"}

\* the branches of executeWithRetry that end in "continue"
Retryable(r) == r \in {"conn_err", "s5xx"}

\* an executeWithRetry that returns nil only for a result with status success
ReturnsNil_OnlySuccess(r) == r = "ok_success"

\* executeWithRetry returns nil: the response was parsed into the result
ReturnsNil(r) ==
  r \in {"ok_success", "ok_failure", "s3xx_success", "s3xx_failure"}

\* what ExecuteJob returns once executeWithRetry ended on response r: the
\* decoded result (its status) when err == nil, an error otherwise
ExecuteJobResult(r) ==
  IF r \in {"ok_success", "s3xx_success"} THEN "success"
  ELSE IF r \in {"ok_failure", "s3xx_failure"} THEN "failure"
  ELSE "error"

\* ExecuteJob: if !c.breaker.AllowRequest() { return error }; otherwise the
\* request is built and executeWithRetry starts with attempt = 0.  When
\* json.Marshal or http.NewRequest fails, ExecuteJob returns that error
\* after AllowRequest: nothing is sent and the breaker is told nothing.
ExecAllow(c) ==
  /\ xpc[c] = "idle"
  /\ cbState' = AllowRequestState
  /\ IF AllowRequest
       THEN \/ /\ xpc' = [xpc EXCEPT ![c] = "do"]
               /\ xret' = [xret EXCEPT ![c] = "none"]
            \/ /\ xret' = [xret EXCEPT ![c] = "build_error"]
               /\ UNCHANGED xpc
       ELSE /\ xret' = [xret EXCEPT ![c] = "circuit_open"]
            /\ UNCHANGED xpc
  /\ attempt' = [attempt EXCEPT ![c] = 0]
  /\ sent' = [sent EXCEPT ![c] = 0]
  /\ lastResp' = [lastResp EXCEPT ![c] = "none"]
  /\ UNCHANGED <<cbFailures, cbLastFail, cbStreak, now>>
  /\ UNCHANGED <<semVars, procVars, storeVars, loopVars, mainVars>>
  /\ UNCHANGED <<clientVars, waitVars>>
  /\ UNCHANGED <<grpcVars, callerVars>>
  /\ UNCHANGED againVars

\* an ExecuteJob that records a failure with the breaker for every failed
\* attempt
ExecDo_RecordsEveryAttempt(c, r) ==
  /\ xpc[c] = "do"
  /\ lastResp' = [lastResp EXCEPT ![c] = r]
  /\ IF Retryable(r) /\ attempt[c] < MaxRetries
       THEN /\ attempt' = [attempt EXCEPT ![c] = @ + 1]
            /\ sent' = [sent EXCEPT ![c] = @ + 1]
            /\ RecordFailure
            /\ UNCHANGED <<xpc, xret, now>>
       ELSE /\ IF ReturnsNil(r) THEN RecordSuccess ELSE RecordFailure
            /\ xret' = [xret EXCEPT ![c] = ExecuteJobResult(r)]
            /\ xpc' = [xpc EXCEPT ![c] = "idle"]
            /\ attempt' = [attempt EXCEPT ![c] = 0]
            /\ sent' = [sent EXCEPT ![c] = 0]
            /\ UNCHANGED now
  /\ UNCHANGED <<semVars, procVars, storeVars, loopVars, mainVars>>
  /\ UNCHANGED <<clientVars, waitVars>>
  /\ UNCHANGED <<grpcVars, callerVars>>
  /\ UNCHANGED againVars

\* an executeWithRetry that goes on to the next attempt after any response
\* that is not a 2xx
ExecDo_RetriesEverything(c, r) ==
  /\ xpc[c] = "do"
  /\ lastResp' = [lastResp EXCEPT ![c] = r]
  /\ IF r \in {"conn_err", "s5xx", "s4xx"} /\ attempt[c] < MaxRetries
       THEN /\ attempt' = [attempt EXCEPT ![c] = @ + 1]
            /\ sent' = [sent EXCEPT ![c] = @ + 1]
            /\ UNCHANGED <<xpc, xret, breakerVars>>
       ELSE /\ IF ReturnsNil(r) THEN RecordSuccess ELSE RecordFailure
            /\ xret' = [xret EXCEPT ![c] = ExecuteJobResult(r)]
            /\ xpc' = [xpc EXCEPT ![c] = "idle"]
            /\ attempt' = [attempt EXCEPT ![c] = 0]
            /\ sent' = [sent EXCEPT ![c] = 0]
            /\ UNCHANGED now
  /\ UNCHANGED <<semVars, procVars, storeVars, loopVars, mainVars>>
  /\ UNCHANGED <<clientVars, waitVars>>
  /\ UNCHANGED <<grpcVars, callerVars>>
  /\ UNCHANGED againVars

\* one iteration of executeWithRetry's loop: (the back-off sleep, then)
\* c.httpClient.Do(reqClone) answers r.  A retryable r continues the loop
\* while attempt < maxRetries.  Everything else, and the last retryable
\* failure, ends executeWithRetry; ExecuteJob then records the outcome with
\* the breaker (err != nil -> RecordFailure, else RecordSuccess) and
\* returns.  lastResp keeps the answer; the counters of the call are gone
\* when it returns.
ExecDo(c, r) ==
  /\ xpc[c] = "do"
  /\ lastResp' = [lastResp EXCEPT ![c] = r]
  /\ IF Retryable(r) /\ attempt[c] < MaxRetries
       THEN /\ attempt' = [attempt EXCEPT ![c] = @ + 1]
            /\ sent' = [sent EXCEPT ![c] = @ + 1]
            /\ UNCHANGED <<xpc, xret, breakerVars>>
       ELSE /\ IF ReturnsNil(r) THEN RecordSuccess ELSE RecordFailure
            /\ xret' = [xret EXCEPT ![c] = ExecuteJobResult(r)]
            /\ xpc' = [xpc EXCEPT ![c] = "idle"]
            /\ attempt' = [attempt EXCEPT ![c] = 0]
            /\ sent' = [sent EXCEPT ![c] = 0]
            /\ UNCHANGED now
  /\ UNCHANGED <<semVars, procVars, storeVars, loopVars, mainVars>>
  /\ UNCHANGED <<clientVars, waitVars>>
  /\ UNCHANGED <<grpcVars, callerVars>>
  /\ UNCHANGED againVars

\* time passes
Tick ==
  /\ now < MaxClock
  /\ now' = now + 1
  /\ UNCHANGED <<cbState, cbFailures, cbLastFail, cbStreak, callVars>>
  /\ UNCHANGED <<semVars, procVars, storeVars, loopVars, mainVars>>
  /\ UNCHANGED <<clientVars, waitVars>>
  /\ UNCHANGED <<grpcVars, callerVars>>
  /\ UNCHANGED againVars

SidecarNext ==
  \/ \E c \in Callers : ExecAllow(c)
  \/ \E c \in Callers, r \in Responses : ExecDo(c, r)
  \/ Tick

SidecarSpec == Init /\ [][SidecarNext]_vars

(***************************************************************************)
(* GrpcSpec: goroutines calling GRPCClient.ExecuteJob, the client that     *)
(* NewClient returns for protocol "grpc".  The client has no breaker: the  *)
(* call builds the request, sends it and returns what the executor         *)
(* answered.                                                               *)
(***************************************************************************)
\* what the RPC can answer: an error (unreachable, deadline exceeded), a
\* response with status success, a response with status failure
GrpcResponses == {"rpc_err", "ok_success", "ok_failure"}

\* ExecuteJob: the request is built and c.client.ExecuteJob(ctx, req) sent
GrpcSend(c) ==
  /\ xpc[c] = "idle"
  /\ xpc' = [xpc EXCEPT ![c] = "rpc"]
  /\ sent' = [sent EXCEPT ![c] = 1]
  /\ xret' = [xret EXCEPT ![c] = "none"]
  /\ lastResp' = [lastResp EXCEPT ![c] = "none"]
  /\ UNCHANGED <<attempt, gStreak>>
  /\ UNCHANGED <<semVars, procVars, storeVars, loopVars, mainVars>>
  /\ UNCHANGED <<clientVars, waitVars, breakerVars, callerVars>>
  /\ UNCHANGED againVars

\* the RPC answers r and ExecuteJob returns
GrpcReturn(c, r) ==
  /\ xpc[c] = "rpc"
  /\ xpc' = [xpc EXCEPT ![c] = "idle"]
  /\ lastResp' = [lastResp EXCEPT ![c] = r]
  /\ xret' = [xret EXCEPT ![c] = IF r = "rpc_err" THEN "error"
                                 ELSE IF r = "ok_success" THEN "success"
                                 ELSE "failure"]
  /\ gStreak' = IF r # "rpc_err" THEN 0
                ELSE IF gStreak < MaxFailures THEN gStreak + 1
                ELSE gStreak
  /\ UNCHANGED <<attempt, sent>>
  /\ UNCHANGED <<semVars, procVars, storeVars, loopVars, mainVars>>
  /\ UNCHANGED <<clientVars, waitVars, breakerVars, callerVars>>
  /\ UNCHANGED againVars

GrpcNext ==
  \/ \E c \in Callers : GrpcSend(c)
  \/ \E c \in Callers, r \in GrpcResponses : GrpcReturn(c, r)
  \/ Tick

GrpcSpec == Init /\ [][GrpcNext]_vars

(***************************************************************************)
(* StoreSpec and SweepSpec: a caller of the redis Client's functions, one  *)
(* call at a time, on a store that Sidekiq-compatible producers write to   *)
(* as well.                                                                *)
(* Every store command is atomic; a function that issues two commands      *)
(* issues them in order and either of them can fail.  The clock counts     *)
(* ticks of 1/TicksPerSecond s; time.Now().Unix() truncates to seconds.    *)
(***************************************************************************)
TicksPerSecond == 3

\* time.Now().Unix() at clock reading t; time.Now().Add(d).Unix() is
\* Unix(t + d)
Unix(t) == t \div TicksPerSecond

\* the delays EnqueueRetry is called with, in ticks
Delays == {0, 1, 2, TicksPerSecond}

\* the most ticks that pass between the two clock readings of one
\* EnqueueRetry call (json.Marshal lies between them)
MaxElapsed == 2

Elapsed == 0..MaxElapsed

\* what producers write: <<extra, form>>
Kinds == {<<"", "go">>, <<"tags", "alt">>, <<"", "invalid">>}

\* ZADD key score member: a member is in a sorted set once, with one score
ZAdd(set, member, score) ==
  {e \in set : e.job # member} \cup {[job |-> member, score |-> score]}

\* ZREM key member: removes the entry whose member is exactly this string
ZRem(set, member) == {e \in set : e.job # member}

\* the order of a sorted set: by score, members of equal score by their
\* bytes (for records in Go's encoding: jid, then retry, then failed_at)
MemberLess(a, b) ==
  \/ a.jid < b.jid
  \/ a.jid = b.jid /\ a.retry < b.retry
  \/ a.jid = b.jid /\ a.retry = b.retry /\ a.failed_at < b.failed_at

RankLess(e, f) ==
  \/ e.score < f.score
  \/ e.score = f.score /\ MemberLess(e.job, f.job)

\* ZREMRANGEBYRANK dead 0 -(DeadCap+1): what stays is the DeadCap entries
\* of highest rank
ZRemRangeByRank(set) ==
  {e \in set : Cardinality({f \in set : RankLess(e, f)}) < DeadCap}

\* a producer left-pushes a payload of kind k onto queue:<q>
EnqueueForeign(q, k) ==
  /\ Len(pushed) < NJobs
  /\ LET j == Len(pushed) + 1
         payload == [jid |-> j, queue |-> q, retry |-> 0, failed_at |-> 0,
                     extra |-> k[1], form |-> k[2]]
     IN /\ queue' = [queue EXCEPT ![q] = LPush(@, payload)]
        /\ pushed' = Append(pushed, q)
  /\ UNCHANGED <<schedule, dead>>
  /\ UNCHANGED <<semVars, procVars, loopVars, mainVars, clientVars>>
  /\ UNCHANGED <<waitVars, breakerVars, callVars>>
  /\ UNCHANGED <<grpcVars, callerVars>>
  /\ UNCHANGED againVars

\* a producer schedules a payload of kind k for queue:<q>, d seconds from
\* now (Sidekiq's perform_in: ZADD schedule)
ScheduleForeign(q, k, d) ==
  /\ Len(pushed) < NJobs
  /\ LET j == Len(pushed) + 1
         payload == [jid |-> j, queue |-> q, retry |-> 0, failed_at |-> 0,
                     extra |-> k[1], form |-> k[2]]
     IN /\ schedule' = ZAdd(schedule, payload, Unix(now) + d)
        /\ pushed' = Append(pushed, "schedule")
  /\ UNCHANGED <<queue, dead>>
  /\ UNCHANGED <<semVars, procVars, loopVars, mainVars, clientVars>>
  /\ UNCHANGED <<waitVars, breakerVars, callVars>>
  /\ UNCHANGED <<grpcVars, callerVars>>
  /\ UNCHANGED againVars

\* PollJobs(queues), called by a caller that holds no job.  fail: the store
\* call fails
CallPollJobs(fail) ==
  /\ cpc = "idle"
  /\ cjob = Nil
  /\ UNCHANGED <<cpc, cdue>>
  /\ IF fail
       THEN /\ cerr' = "err"
            /\ UNCHANGED <<queue, cjob, cjson>>
       ELSE IF NonEmptyIdx = {}
       THEN /\ cerr' = "nil"
            /\ UNCHANGED <<queue, cjob, cjson>>
       ELSE LET q == FirstNonEmpty
                jobJSON == BLPopElem(queue[q])
            IN /\ queue' = [queue EXCEPT ![q] = BLPopRest(@)]
               /\ IF Decodes(jobJSON)
                    THEN /\ cjob' = Decode(jobJSON)
                         /\ cjson' = jobJSON
                         /\ cerr' = "nil"
                    ELSE /\ cerr' = "err"
                         /\ UNCHANGED <<cjob, cjson>>
  /\ UNCHANGED <<schedule, dead, pushed>>
  /\ UNCHANGED <<semVars, procVars, loopVars, mainVars, clientVars>>
  /\ UNCHANGED <<waitVars, breakerVars, callVars, grpcVars>>
  /\ UNCHANGED againVars

\* the record EnqueueRetry encodes: FailedAt = now; Retry++
RetryRecord(job) ==
  [job EXCEPT !.failed_at = Unix(now), !.retry = @ + 1]

\* EnqueueRetry that leaves the retry count alone
EnqueueRetry_NoIncrement(delay, dt, fail) ==
  /\ cpc = "idle"
  /\ cjob # Nil
  /\ UNCHANGED <<cpc, cdue>>
  /\ cjob.retry < RetryBound
  /\ now + dt <= MaxClock
  /\ now' = now + dt
  /\ LET job == [cjob EXCEPT !.failed_at = Unix(now)]
         jobJSON == Encode(job)
         retryAt == Unix(now + dt + delay)
     IN IF fail
          THEN /\ cerr' = "err"
               /\ cjob' = job
               /\ UNCHANGED <<queue, schedule, cjson>>
          ELSE /\ cerr' = "nil"
               /\ cjob' = Nil
               /\ cjson' = NoPayload
               /\ IF delay > 0
                    THEN /\ schedule' = ZAdd(schedule, jobJSON, retryAt)
                         /\ UNCHANGED queue
                    ELSE /\ queue' = [queue EXCEPT
                                        ![job.queue] = LPush(@, jobJSON)]
                         /\ UNCHANGED schedule
  /\ UNCHANGED <<dead, pushed>>
  /\ UNCHANGED <<cbState, cbFailures, cbLastFail, cbStreak>>
  /\ UNCHANGED <<semVars, procVars, loopVars, mainVars, clientVars>>
  /\ UNCHANGED <<waitVars, callVars, grpcVars>>
  /\ UNCHANGED againVars

\* EnqueueRetry(job, delay) on the job the caller holds.  dt: the ticks
\* between the two readings of the clock; fail: the store write fails (the
\* record was changed before the write)
EnqueueRetry(delay, dt, fail) ==
  /\ cpc = "idle"
  /\ cjob # Nil
  /\ UNCHANGED <<cpc, cdue>>
  /\ cjob.retry < RetryBound
  /\ now + dt <= MaxClock
  /\ now' = now + dt
  /\ LET job == RetryRecord(cjob)
         jobJSON == Encode(job)
         retryAt == Unix(now + dt + delay)
     IN IF fail
          THEN /\ cerr' = "err"
               /\ cjob' = job
               /\ UNCHANGED <<queue, schedule, cjson>>
          ELSE /\ cerr' = "nil"
               /\ cjob' = Nil
               /\ cjson' = NoPayload
               /\ IF delay > 0
                    THEN /\ schedule' = ZAdd(schedule, jobJSON, retryAt)
                         /\ UNCHANGED queue
                    ELSE /\ queue' = [queue EXCEPT
                                        ![job.queue] = LPush(@, jobJSON)]
                         /\ UNCHANGED schedule
  /\ UNCHANGED <<dead, pushed>>
  /\ UNCHANGED <<cbState, cbFailures, cbLastFail, cbStreak>>
  /\ UNCHANGED <<semVars, procVars, loopVars, mainVars, clientVars>>
  /\ UNCHANGED <<waitVars, callVars, grpcVars>>
  /\ UNCHANGED againVars

\* MoveToDLQ(job) on the job the caller holds, up to the reply to ZADD.
\* dt: the ticks between the two readings of the clock; addFails: ZADD
\* fails and MoveToDLQ returns the error.  The trim is a second command,
\* sent after the reply to the first: other clients run in between.
MoveToDLQ(dt, addFails) ==
  /\ cpc = "idle"
  /\ cjob # Nil
  /\ now + dt <= MaxClock
  /\ now' = now + dt
  /\ LET job == [cjob EXCEPT !.failed_at = Unix(now)]
         jobJSON == Encode(job)
         score == Unix(now + dt)
     IN /\ cjob' = job
        /\ IF addFails
             THEN /\ cerr' = "err"
                  /\ UNCHANGED <<dead, cpc>>
             ELSE /\ dead' = ZAdd(dead, jobJSON, score)
                  /\ cpc' = "dlq_trim"
                  /\ UNCHANGED cerr
  /\ UNCHANGED <<queue, schedule, pushed, cjson, cdue>>
  /\ UNCHANGED <<cbState, cbFailures, cbLastFail, cbStreak>>
  /\ UNCHANGED <<semVars, procVars, loopVars, mainVars, clientVars>>
  /\ UNCHANGED <<waitVars, callVars, grpcVars>>
  /\ UNCHANGED againVars

\* MoveToDLQ after ZADD: ZREMRANGEBYRANK dead 0 -10001, then return nil.
\* trimFails: the command fails, which is printed and otherwise ignored
MoveToDLQTrim(trimFails) ==
  /\ cpc = "dlq_trim"
  /\ dead' = IF trimFails THEN dead ELSE ZRemRangeByRank(dead)
  /\ cerr' = "nil"
  /\ cjob' = Nil
  /\ cjson' = NoPayload
  /\ cpc' = "idle"
  /\ UNCHANGED <<queue, schedule, pushed, cdue>>
  /\ UNCHANGED <<semVars, procVars, loopVars, mainVars, clientVars>>
  /\ UNCHANGED <<waitVars, breakerVars, callVars, grpcVars>>
  /\ UNCHANGED againVars

\* GetScheduledJobs(): the members of schedule with score <= now that
\* decode, decoded
GetScheduledJobs ==
  {Decode(e.job) : e \in {f \in schedule :
                            f.score <= Unix(now) /\ Decodes(f.job)}}

\* the records that producers schedule, decoded
ScheduledRecords ==
  {[jid |-> j, queue |-> q, retry |-> 0, failed_at |-> 0] :
     j \in Jobs, q \in QueueSet}

\* GetScheduledJobs() by a caller that holds no job; the caller keeps the
\* slice it got.  fail: ZRANGEBYSCORE fails
CallGetScheduledJobs(fail) ==
  /\ cpc = "idle"
  /\ cjob = Nil
  /\ IF fail
       THEN /\ cerr' = "err"
            /\ UNCHANGED cdue
       ELSE /\ cerr' = "nil"
            /\ cdue' = GetScheduledJobs
  /\ UNCHANGED <<cjob, cjson, cpc>>
  /\ UNCHANGED <<queue, schedule, dead, pushed>>
  /\ UNCHANGED <<semVars, procVars, loopVars, mainVars, clientVars>>
  /\ UNCHANGED <<waitVars, breakerVars, callVars, grpcVars>>
  /\ UNCHANGED againVars

\* the member of schedule that decoded to this job
StoredMember(job) ==
  LET stored == {e.job : e \in {f \in schedule :
                                 Decodes(f.job) /\ Decode(f.job) = job}}
  IN IF stored = {} THEN NoPayload ELSE CHOOSE p \in stored : TRUE

\* MoveScheduledToQueue(job) for a job of the slice GetScheduledJobs
\* returned, up to the first command of the pipeline.  c.client.Pipeline()
\* sends ZREM and LPUSH together without MULTI/EXEC: the store applies
\* them one after the other and serves other clients in between.  lost:
\* the pipeline does not reach the store, Exec returns the error
MoveScheduledToQueue(job, lost) ==
  /\ cpc = "idle"
  /\ job \in cdue
  /\ Len(queue[job.queue]) < MaxQueueLen
  /\ cdue' = cdue \ {job}
  /\ IF lost
       THEN /\ cerr' = "err"
            /\ UNCHANGED <<schedule, cjob, cjson, cpc>>
       ELSE /\ schedule' = ZRem(schedule, Encode(job))
            /\ cjob' = job
            /\ cjson' = StoredMember(job)
            /\ cpc' = "sweep_lpush"
            /\ UNCHANGED cerr
  /\ UNCHANGED <<queue, dead, pushed>>
  /\ UNCHANGED <<semVars, procVars, loopVars, mainVars, clientVars>>
  /\ UNCHANGED <<waitVars, breakerVars, callVars, grpcVars>>
  /\ UNCHANGED againVars

\* MoveScheduledToQueue after ZREM: LPUSH queue:<job.Queue>, then
\* pipe.Exec returns.  refused: LPUSH is refused or lost, Exec returns the
\* error
MoveScheduledToQueueLPush(refused) ==
  /\ cpc = "sweep_lpush"
  /\ IF refused
       THEN /\ cerr' = "err"
            /\ UNCHANGED queue
       ELSE /\ cerr' = "nil"
            /\ queue' = [queue EXCEPT ![cjob.queue] = LPush(@, Encode(cjob))]
  /\ cjob' = Nil
  /\ cjson' = NoPayload
  /\ cpc' = "idle"
  /\ UNCHANGED <<schedule, dead, pushed, cdue>>
  /\ UNCHANGED <<semVars, procVars, loopVars, mainVars, clientVars>>
  /\ UNCHANGED <<waitVars, breakerVars, callVars, grpcVars>>
  /\ UNCHANGED againVars

\* StoreSpec: producers, and a caller that polls a job and hands it back
\* with EnqueueRetry or MoveToDLQ
StoreNext ==
  \/ \E q \in QueueSet, k \in Kinds : EnqueueForeign(q, k)
  \/ ClearQueues
  \/ \E fail \in BOOLEAN : CallPollJobs(fail)
  \/ \E delay \in Delays, dt \in Elapsed, fail \in BOOLEAN :
       EnqueueRetry(delay, dt, fail)
  \/ \E dt \in {0, 1}, addFails \in BOOLEAN : MoveToDLQ(dt, addFails)
  \/ \E trimFails \in BOOLEAN : MoveToDLQTrim(trimFails)
  \/ Tick

StoreSpec == Init /\ [][StoreNext]_vars

\* SweepSpec: producers that schedule jobs, and a caller that promotes the
\* due ones with GetScheduledJobs and MoveScheduledToQueue
SweepNext ==
  \/ \E q \in QueueSet, k \in Kinds, d \in {0, 1} : ScheduleForeign(q, k, d)
  \/ ClearQueues
  \/ \E fail \in BOOLEAN : CallGetScheduledJobs(fail)
  \/ \E job \in ScheduledRecords, lost \in BOOLEAN :
       MoveScheduledToQueue(job, lost)
  \/ \E refused \in BOOLEAN : MoveScheduledToQueueLPush(refused)
  \/ Tick

SweepSpec == Init /\ [][SweepNext]_vars

(***************************************************************************)
(* FieldSpec: the worker of Spec on a store that other producers write to  *)
(* as well: payloads of every kind arrive on the lists, and jobs are       *)
(* scheduled for now.  The worker is scheduled fairly, and the store does  *)
(* not fail every poll from some point on; nothing forces the producers,   *)
(* a signal, a store error or the shutdown deadline.                       *)
(***************************************************************************)
FieldNext ==
  \/ Next
  \/ \E q \in QueueSet, k \in Kinds : EnqueueForeign(q, k)
  \/ \E q \in QueueSet, k \in Kinds : ScheduleForeign(q, k, 0)

FieldSpec ==
  /\ Init
  /\ [][FieldNext]_vars
  /\ \A j \in Jobs : WF_vars(TaskStep(j))
  /\ WF_vars(LoopStep)
  /\ SF_vars(PollJob \/ PollNil)
  /\ WF_vars(ShutdownStep)

(***************************************************************************)
(* Vocabulary of the properties.                                           *)
(***************************************************************************)
\* jobs whose executor call has started and whose token is not yet released
Started == {j \in Jobs : task[j] \in {"exec", "release"}}

\* jobs whose goroutine exists and has not ended
Spawned == {j \in Jobs : task[j] \notin {"none", "finished"}}

PoppedJobs == {popped[i][1] : i \in 1..Len(popped)}

\* the job is held by the worker: by the loop (popped, ProcessJob not yet
\* returned) or by its goroutine
InFlight(j) == cur.jid = j \/ j \in Spawned

\* a record with jid j is in a queue list, in schedule or in dead
InStore(j) ==
  \/ \E q \in QueueSet : \E i \in 1..Len(queue[q]) : queue[q][i].jid = j
  \/ \E e \in schedule : e.job.jid = j
  \/ \E e \in dead : e.job.jid = j

\* a producer left-pushed job j onto list q
PushedOn(q, j) == j \in 1..Len(pushed) /\ pushed[j] = q

\* the goroutine of job j ends in this step, after a failed execution
EndsFailed(j) ==
  /\ task[j] = "pwg_done"
  /\ task'[j] = "finished"
  /\ outcome[j] = "failed"

\* ProcessJob(j) stands in Acquire with every token taken, and Shutdown
\* has cancelled the admission context
BlockedCancelled(j) ==
  /\ lpc = "pj_acquire"
  /\ cur.jid = j
  /\ ch = SemCapacity
  /\ cpCancelled

\* no Acquire, TryAcquire or Release of the semaphore is in progress: the
\* poll loop is not inside Acquire, no job goroutine and no client task is
\* inside Release or between the channel operation and the counters
SemQuiescent ==
  /\ lpc \notin {"pj_acquire", "pj_commit"}
  /\ \A j \in Jobs : task[j] \notin {"rel_dec", "rel_wg"}
  /\ \A t \in Tasks : tpc[t] \in {"idle", "held"}

\* the job has an entry in schedule whose score is <= now
Due(j) == \E e \in schedule : e.job.jid = j /\ e.score <= Unix(now)

\* the job has an entry in schedule / a payload in a list
InSchedule(j) == \E e \in schedule : e.job.jid = j
InQueue(j) == \E q \in QueueSet : \E i \in 1..Len(queue[q]) : queue[q][i].jid = j

(***************************************************************************)
(* C1 (SemSpec).  Under every interleaving of Acquire, TryAcquire and      *)
(* paired Release calls, 0 <= active <= capacity in every state, the       *)
(* states between a Release's token removal and its decrement included.    *)
(* The upper bound fails: a Release frees the channel slot before it       *)
(* decrements, and an Acquire that takes the slot increments first.        *)
(***************************************************************************)
C1_ActiveWithinCapacity == 0 <= ActiveCount /\ ActiveCount <= SemCapacity

(***************************************************************************)
(* C2.  The number of jobs whose executor call has started and whose token *)
(* has not yet been released never exceeds the capacity.                   *)
(***************************************************************************)
C2_StartedWithinCapacity == Cardinality(Started) <= SemCapacity

\* the cap is reached while the loop waits in Acquire with one more job
C2_Witness == Cardinality(Started) = SemCapacity /\ lpc = "pj_acquire"

(***************************************************************************)
(* C3.  Once Shutdown has set running to false, a ProcessJob call returns  *)
(* the shutdown error without touching the semaphore, the wait groups or   *)
(* any job goroutine, and a job so rejected is never executed.             *)
(***************************************************************************)
C3_RejectedAfterShutdown ==
  /\ [][(lpc = "pj_check" /\ ~IsRunning /\ lpc' # lpc)
          => /\ submit'[cur.jid] = "err_shutdown"
             /\ UNCHANGED <<ch, active, swg, pwg, task, held, outcome>>]_vars
  /\ [](\A j \in Jobs : submit[j] = "err_shutdown"
          => task[j] = "none" /\ outcome[j] = "none")

C3_Witness == \E j \in Jobs : submit[j] = "err_shutdown" /\ ~IsRunning

(***************************************************************************)
(* C4 (FairSpec).  When Shutdown returns the timeout error the             *)
(* processor is not running, and the jobs still executing are not          *)
(* aborted: each completes its executor call and releases its token, and   *)
(* the active count returns to 0.  The last part fails in the worker:      *)
(* main returns right after Shutdown, the process ends and the job         *)
(* goroutine with it.                                                      *)
(***************************************************************************)
C4_TimeoutLeavesJobsToFinish ==
  /\ [](sdRes = "timeout" => ~IsRunning)
  /\ \A j \in Jobs :
       (sdRes = "timeout" /\ task[j] = "exec")
          ~> (task[j] = "finished" /\ outcome[j] # "none")
  /\ (sdRes = "timeout") ~> (ActiveJobs = 0 /\ Spawned = {})

(***************************************************************************)
(* C5.  When Shutdown returns ok, at that moment the active count is 0 and *)
(* every job admitted before the Shutdown call has finished.  The first    *)
(* part fails: a ProcessJob that passed the running check before Shutdown  *)
(* flipped it can take a token after the waiter has seen both wait groups  *)
(* at zero (the race of C34).                                              *)
(***************************************************************************)
C5_OkMeansDrained ==
  [][(sdRes = "none" /\ sdRes' = "ok")
       => /\ ActiveJobs' = 0
          /\ \A j \in sdAdmitted : task'[j] = "finished"]_vars

(***************************************************************************)
(* C6.  No popped job is lost: every job PollJobs has returned is in       *)
(* flight, finished with status success, or back in a store collection.    *)
(***************************************************************************)
C6_NoPoppedJobLost ==
  \A j \in PoppedJobs :
    \/ InFlight(j)
    \/ (task[j] = "finished" /\ outcome[j] = "completed")
    \/ InStore(j)

(***************************************************************************)
(* C7.  When the goroutine of a job that ended in failure with             *)
(* retry < MAX_ATTEMPTS is done, the record is in the schedule set with    *)
(* retry incremented by one and failed_at set.                             *)
(***************************************************************************)
C7_FailedJobScheduled ==
  [][\A j \in Jobs :
       (EndsFailed(j) /\ held[j].retry < MaxAttempts)
         => \E e \in schedule' :
              /\ e.job.jid = j
              /\ e.job.retry = held[j].retry + 1
              /\ e.job.failed_at > 0]_vars

(***************************************************************************)
(* C8.  Every record in dead has retry >= MAX_ATTEMPTS, and when the       *)
(* goroutine of a failed job whose budget is exhausted is done, the record *)
(* is in dead.                                                             *)
(***************************************************************************)
C8_DeadIffBudgetExhausted ==
  /\ [](\A e \in dead : e.job.retry >= MaxAttempts)
  /\ [][\A j \in Jobs :
          (EndsFailed(j) /\ held[j].retry >= MaxAttempts)
            => \E e \in dead' : e.job.jid = j]_vars

(***************************************************************************)
(* C9.  Per-queue FIFO at dispatch: when PollJobs returns job B, every job *)
(* pushed to the same list before B (a smaller jid) has been returned      *)
(* before B.                                                               *)
(***************************************************************************)
C9_PerQueueFIFO ==
  \A b \in 1..Len(popped) :
    \A a \in 1..(popped[b][1] - 1) :
      PushedOn(popped[b][2], a)
        => \E i \in 1..(b - 1) : popped[i][1] = a

(***************************************************************************)
(* C10.  No overfetch: the jobs removed from the store and not yet         *)
(* finished (held by the loop or by a job goroutine) never outnumber the   *)
(* capacity.                                                               *)
(***************************************************************************)
C10_NoOverfetch ==
  Cardinality({j \in PoppedJobs : InFlight(j)}) <= SemCapacity

(***************************************************************************)
(* Vocabulary of the sidecar client properties.                            *)
(***************************************************************************)
\* caller c's call goes on to another attempt in this step
Retries(c) ==
  xpc[c] = "do" /\ xpc'[c] = "do" /\ attempt'[c] = attempt[c] + 1

\* caller c's ExecuteJob returns in this step, after executeWithRetry
Returns(c) == xpc[c] = "do" /\ xpc'[c] = "idle"

\* caller c sends a request in this step; lastResp'[c] is the answer and
\* sent[c] + 1 the number of requests the call has sent with it
Sends(c) == Retries(c) \/ Returns(c)

\* a response with a 2xx status
Is2xx(r) == r \in {"ok_success", "ok_failure", "ok_garbage"}

(***************************************************************************)
(* C11 (SidecarSpec).  After max_failures RecordFailure calls with no      *)
(* RecordSuccess between them the breaker is open and AllowRequest returns *)
(* false as long as reset_timeout has not elapsed since the last recorded  *)
(* failure; with fewer consecutive failures the breaker is closed and      *)
(* admits requests.                                                        *)
(***************************************************************************)
C11_OpensAfterMaxFailures ==
  /\ (cbStreak >= MaxFailures /\ now - cbLastFail < ResetTimeout)
       => (GetState = "open" /\ ~AllowRequest)
  /\ cbStreak < MaxFailures => (GetState = "closed" /\ AllowRequest)

\* max_failures failures in a row, and a caller was turned away
C11_Witness ==
  /\ cbStreak >= MaxFailures
  /\ now - cbLastFail < ResetTimeout
  /\ \E c \in Callers : xret[c] = "circuit_open"

(***************************************************************************)
(* C12 (SidecarSpec).  When the breaker is open and reset_timeout has not  *)
(* elapsed, ExecuteJob returns the circuit-open error without sending any  *)
(* request to the executor.                                                *)
(***************************************************************************)
C12_OpenBreakerShortCircuits ==
  /\ [][\A c \in Callers :
         (ExecAllow(c) /\ cbState = "open" /\ ~ResetElapsed)
           => /\ xret'[c] = "circuit_open"
              /\ xpc'[c] = "idle"
              /\ sent'[c] = 0]_vars
  /\ [](\A c \in Callers :
         xret[c] = "circuit_open" => (xpc[c] = "idle" /\ sent[c] = 0))

C12_Witness ==
  \E c \in Callers :
    xret[c] = "circuit_open" /\ cbState = "open" /\ ~ResetElapsed

(***************************************************************************)
(* C13 (SidecarSpec), as stated.  One ExecuteJob call sends at most        *)
(* 1 + 3 requests; it goes on to another attempt only after a connection   *)
(* failure or a 5xx response; it stops at the first 2xx response,          *)
(* returning its result with the breaker closed, and at the first 4xx      *)
(* response, returning an error; it returns an error after the 4th         *)
(* retryable failure.  The 2xx part fails for a 2xx response whose body    *)
(* does not decode: the call returns an error and records a failure.       *)
(***************************************************************************)
C13_BoundedTransportRetry ==
  /\ [][\A c \in Callers : Sends(c) => sent[c] + 1 <= 1 + MaxRetries]_vars
  /\ [][\A c \in Callers :
         Sends(c) =>
           (Retries(c) <=> (/\ lastResp'[c] \in {"conn_err", "s5xx"}
                            /\ sent[c] + 1 < 1 + MaxRetries))]_vars
  /\ [][\A c \in Callers :
         Returns(c) =>
           /\ Is2xx(lastResp'[c])
                => (xret'[c] \in {"success", "failure"} /\ cbState' = "closed")
           /\ ~Is2xx(lastResp'[c]) => xret'[c] = "error"]_vars

(***************************************************************************)
(* C13 (SidecarSpec), amended.  As above, with the 2xx part limited to a   *)
(* 2xx response whose body decodes; a 2xx response whose body does not     *)
(* decode ends the call with an error after that attempt, without retry.   *)
(* A response with another status below 400 is handled like a 2xx one.     *)
(***************************************************************************)
C13_BoundedTransportRetry_Decodable ==
  /\ [][\A c \in Callers : Sends(c) => sent[c] + 1 <= 1 + MaxRetries]_vars
  /\ [][\A c \in Callers :
         Sends(c) =>
           (Retries(c) <=> (/\ lastResp'[c] \in {"conn_err", "s5xx"}
                            /\ sent[c] + 1 < 1 + MaxRetries))]_vars
  /\ [][\A c \in Callers :
         Returns(c) =>
           /\ lastResp'[c] \in {"ok_success", "ok_failure"}
                => (xret'[c] \in {"success", "failure"} /\ cbState' = "closed")
           /\ lastResp'[c] \in {"s3xx_success", "s3xx_failure"}
                => (xret'[c] \in {"success", "failure"} /\ cbState' = "closed")
           /\ lastResp'[c] \notin
                {"ok_success", "ok_failure", "s3xx_success", "s3xx_failure"}
                => xret'[c] = "error"]_vars

\* one call ended in an error on a 5xx answer (its 4th request), another
\* got its result after two failed attempts
C13_Witness ==
  /\ \E c \in Callers :
       xpc[c] = "idle" /\ xret[c] = "error" /\ lastResp[c] = "s5xx"
  /\ \E c \in Callers :
       xpc[c] = "do" /\ sent[c] = 2 /\ lastResp[c] = "s5xx"

(***************************************************************************)
(* C14 (SidecarSpec).  A response with status = failure that arrives over  *)
(* a successful HTTP exchange ends the retry loop, is returned as a result *)
(* without error, and is recorded as a breaker success.                    *)
(***************************************************************************)
C14_FailureResultIsNotTransportError ==
  [][\A c \in Callers :
       (Sends(c) /\ lastResp'[c] = "ok_failure")
         => /\ Returns(c)
            /\ xret'[c] = "failure"
            /\ cbFailures' = 0
            /\ cbStreak' = 0
            /\ cbState' = "closed"]_vars

\* a failure result was returned after a breaker failure had been recorded
C14_Witness ==
  /\ \E c \in Callers : xret[c] = "failure" /\ lastResp[c] = "ok_failure"
  /\ \E c \in Callers : xret[c] = "error"
  /\ cbStreak = 0

(***************************************************************************)
(* Vocabulary of the semaphore properties.                                 *)
(***************************************************************************)
\* the tasks that hold a token: their send into s.ch succeeded and they
\* have not begun to release
Holders == {t \in Tasks : tpc[t] \in {"commit", "held"}}

\* the tasks blocked in Acquire
Waiters == {t \in Tasks : tpc[t] = "acquire"}

(***************************************************************************)
(* C15 (MisuseSpec).  A Release that is not paired with an earlier         *)
(* successful Acquire / TryAcquire of the caller changes nothing, in every *)
(* state; the active count and the counter of s.wg never go below 0 and    *)
(* nothing panics.  This fails: the unpaired Release takes the token of    *)
(* another task, and when that task is still between its send and its      *)
(* increment the counters go below 0.                                      *)
(***************************************************************************)
C15_UnpairedReleaseIsNoOp ==
  /\ [][\A t \in Tasks :
         ClientUnpairedRelease(t) => UNCHANGED <<ch, active, swg>>]_vars
  /\ [](ActiveCount >= 0 /\ swg >= 0 /\ ~Panicked)

(***************************************************************************)
(* C16 (SemSpec).  An Acquire whose context is cancelled, on entry or      *)
(* while it is blocked, returns false without taking a token, also when a  *)
(* token is free; the active count is unchanged.  This fails when room is  *)
(* free: both cases of the select are ready and either may be taken.       *)
(***************************************************************************)
C16_CancelledAcquireTakesNothing ==
  [][\A t \in Tasks :
       (tpc[t] = "acquire" /\ tctx[t] /\ tpc'[t] # tpc[t])
         => /\ tpc'[t] = "idle"
            /\ UNCHANGED <<ch, active>>]_vars

(***************************************************************************)
(* C17 (SemSpec).  With several tasks blocked in Acquire on a full         *)
(* semaphore, a Release makes room for exactly one of them: the Release    *)
(* itself moves no other task, each admission fills one free slot, and     *)
(* the tasks holding a token never outnumber the capacity.                 *)
(***************************************************************************)
C17_OneWaiterPerRelease ==
  /\ [](Cardinality(Holders) <= SemCapacity)
  /\ [][\A t \in Tasks :
         (tpc[t] = "held" /\ tpc'[t] = "rel_dec")
           => /\ ch' = ch - 1
              /\ \A u \in Tasks \ {t} : tpc'[u] = tpc[u]]_vars
  /\ [][\A t \in Tasks :
         (tpc[t] = "acquire" /\ tpc'[t] = "commit")
           => /\ ch < SemCapacity
              /\ ch' = ch + 1
              /\ \A u \in Tasks \ {t} : tpc'[u] = tpc[u]]_vars

\* one task is releasing, one waiter has taken the freed slot and another
\* waiter is still blocked on the full channel
C17_Witness ==
  \E t1, t2, t3 \in Tasks :
    /\ tpc[t1] \in {"rel_dec", "rel_wg"}
    /\ tpc[t2] = "commit"
    /\ tpc[t3] = "acquire"
    /\ ch = SemCapacity

(***************************************************************************)
(* C18 (SemSpec).  Wait returns only when the active count is 0: at that   *)
(* moment no task holds a token whose acquisition has completed, the ones  *)
(* that held a token when Wait was called included.                        *)
(***************************************************************************)
C18_WaitReturnsWhenDrained ==
  [][(waitpc # "returned" /\ waitpc' = "returned")
       => /\ ActiveCount = 0
          /\ \A t \in Tasks : tpc[t] \notin {"held", "rel_dec", "rel_wg"}]_vars

\* Wait was called while tokens were held and has returned
C18_Witness == waitpc = "returned" /\ waitSaw # {}

(***************************************************************************)
(* Vocabulary of the admission properties.                                 *)
(***************************************************************************)
\* the jobs that hold a token through a completed Acquire: ProcessJob has
\* returned ok for them, or is about to (it is past Acquire)
Admitted ==
  {j \in Jobs : submit[j] = "ok" \/ (lpc = "pj_spawn" /\ cur.jid = j)}

(***************************************************************************)
(* C19.  ProcessJob returns ok as soon as it holds a token, while the      *)
(* job's executor call has not completed; when all tokens are held it      *)
(* stays blocked in Acquire until a task has released a token or the       *)
(* processor has been shut down.                                           *)
(***************************************************************************)
C19_SubmitReturnsBeforeExecution ==
  /\ [][\A j \in Jobs :
         (submit[j] # "ok" /\ submit'[j] = "ok")
           => /\ lpc = "pj_spawn"
              /\ task'[j] = "exec"
              /\ outcome'[j] = "none"]_vars
  /\ [][(lpc = "pj_acquire" /\ lpc' # lpc)
          => (ch < SemCapacity \/ cpCancelled)]_vars
  /\ [][(lpc = "pj_acquire" /\ lpc' = "pj_commit") => ch < SemCapacity]_vars

\* one job is admitted and executing, ProcessJob is blocked with the next
C19_Witness ==
  /\ lpc = "pj_acquire"
  /\ ch = SemCapacity
  /\ ~cpCancelled
  /\ \E j \in Jobs : submit[j] = "ok" /\ task[j] = "exec"

(***************************************************************************)
(* C20 (FairSpec).  Every admitted job releases its token exactly once     *)
(* after its executor call returns, whatever the outcome (while the        *)
(* process runs); ProcessJob has returned ok for every job that has an     *)
(* outcome; and when all admitted jobs have finished the active count is   *)
(* 0.                                                                      *)
(***************************************************************************)
C20_TokenReleasedWhateverOutcome ==
  /\ [][\A j \in Jobs :
         (task[j] = "exec" /\ task'[j] # "exec") => task'[j] = "release"]_vars
  /\ [][\A j \in Jobs :
         (task[j] = "release" /\ task'[j] # "release")
           => (task'[j] = "rel_dec" /\ ch' = ch - 1)]_vars
  /\ [][\A j \in Jobs :
         (task[j] = "rel_dec" /\ task'[j] # "rel_dec")
           => (task'[j] = "rel_wg" /\ active' = active - 1)]_vars
  /\ [](\A j \in Jobs : outcome[j] # "none" => submit[j] = "ok")
  /\ []((\A j \in Admitted : task[j] = "finished") => ActiveJobs = 0)
  /\ \A j \in Jobs : (task[j] = "exec") ~> (task[j] = "finished" \/ ~Alive)

\* a job that failed and a job that succeeded have both finished
C20_Witness ==
  /\ \E j \in Jobs : task[j] = "finished" /\ outcome[j] = "failed"
  /\ \E j \in Jobs : task[j] = "finished" /\ outcome[j] = "completed"
  /\ ActiveJobs = 0

(***************************************************************************)
(* C21 (FairSpec).  Every job for which ProcessJob returned nil reaches    *)
(* the executor, and exactly once: its goroutine starts executeJob in the  *)
(* step in which ProcessJob returns, the executor call returns one         *)
(* outcome (while the process runs), and a job that has an outcome is      *)
(* never executed again.  This holds with more jobs than tokens.           *)
(***************************************************************************)
C21_AdmittedJobExecutedOnce ==
  /\ [][\A j \in Jobs :
         (task'[j] = "exec" /\ task[j] # "exec")
           => (task[j] = "none" /\ submit[j] = "none" /\ submit'[j] = "ok"
               /\ outcome[j] = "none")]_vars
  /\ [][\A j \in Jobs :
         outcome[j] # "none" => outcome'[j] = outcome[j]]_vars
  /\ [](\A j \in Jobs : submit[j] = "ok" => task[j] # "none")
  /\ \A j \in Jobs : (submit[j] = "ok") ~> (outcome[j] # "none" \/ ~Alive)

\* more jobs than tokens were submitted and every one of them was executed
C21_Witness ==
  /\ NJobs > SemCapacity
  /\ \A j \in Jobs : submit[j] = "ok" /\ outcome[j] # "none"
                      /\ task[j] = "finished"

(***************************************************************************)
(* C22 (FairSpec).  A ProcessJob call that stands blocked in Acquire (all  *)
(* tokens taken) when Shutdown cancels the admission context returns the   *)
(* admission-cancelled error, and its job is never executed -- also when   *)
(* a running job releases its token at that moment.                        *)
(***************************************************************************)
C22_BlockedSubmitCancelled ==
  \A j \in Jobs :
    /\ [](BlockedCancelled(j) => [](task[j] = "none" /\ submit[j] # "ok"))
    /\ BlockedCancelled(j) ~> (submit[j] = "err_cancelled" \/ ~Alive)

(***************************************************************************)
(* C30 (SidecarSpec).  With the breaker open, AllowRequest lets the        *)
(* request through and moves to half_open exactly when                     *)
(* now - last_fail >= reset_timeout, the boundary included; when           *)
(* now - last_fail < reset_timeout it refuses and the breaker stays open.  *)
(***************************************************************************)
C30_HalfOpenAtBoundary ==
  [][\A c \in Callers :
      (ExecAllow(c) /\ cbState = "open")
        => IF now - cbLastFail >= ResetTimeout
             THEN cbState' = "half_open" /\ xpc'[c] = "do"
             ELSE cbState' = "open" /\ xret'[c] = "circuit_open"]_vars

(***************************************************************************)
(* C23 (SweepSpec).  A promotion removes exactly the stored member from    *)
(* schedule and left-pushes it onto queue:<job.queue>, as one atomic       *)
(* step: during and after MoveScheduledToQueue the job is in exactly one   *)
(* of schedule and its list, whatever the pipeline's fate and whatever     *)
(* the fields and formatting of the stored member.                         *)
(***************************************************************************)
C23_PromotionIsAtomicMove ==
  /\ [](cpc = "sweep_lpush" => (InSchedule(cjob.jid) \/ InQueue(cjob.jid)))
  /\ [][\A refused \in BOOLEAN :
         MoveScheduledToQueueLPush(refused)
           => /\ InSchedule(cjob.jid)' # InQueue(cjob.jid)'
              /\ InQueue(cjob.jid)'
                   => Head(queue'[cjob.queue]) = cjson]_vars
  /\ [][\A job \in ScheduledRecords :
         MoveScheduledToQueue(job, TRUE)
           => InSchedule(job.jid)' # InQueue(job.jid)']_vars

(***************************************************************************)
(* C26 (StoreSpec).  A successful EnqueueRetry(job, delay) stores the      *)
(* encoding of the job with retry one higher and failed_at = now, in       *)
(* exactly one place: in schedule with score now + delay when delay > 0    *)
(* (epoch seconds; failed_at + delay when delay is whole seconds and the   *)
(* clock did not move during the call), or at the left end of              *)
(* queue:<job.queue> when delay = 0.  Nothing else in the store changes.   *)
(***************************************************************************)
C26_EnqueueRetryStoresOnce ==
  [][\A delay \in Delays, dt \in Elapsed :
      EnqueueRetry(delay, dt, FALSE)
        => LET p == Encode([cjob EXCEPT !.retry = cjob.retry + 1,
                                        !.failed_at = Unix(now)])
               q == cjob.queue
           IN /\ dead' = dead
              /\ IF delay > 0
                   THEN /\ [job |-> p, score |-> Unix(now' + delay)]
                             \in schedule'
                        /\ \A e \in schedule' : e \in schedule \/ e.job = p
                        /\ \A e \in schedule : e \in schedule' \/ e.job = p
                        /\ Cardinality({e \in schedule' : e.job = p}) = 1
                        /\ (dt = 0 /\ delay = TicksPerSecond)
                             => \E e \in schedule' :
                                  e.job = p /\ e.score = p.failed_at + 1
                        /\ queue' = queue
                   ELSE /\ queue'[q] = <<p>> \o queue[q]
                        /\ \A r \in QueueSet \ {q} : queue'[r] = queue[r]
                        /\ schedule' = schedule]_vars

\* one job was handed back with a delay and is in schedule, another was
\* handed back without and is at the left end of its list
C26_Witness ==
  /\ \E e \in schedule :
       e.job.retry = 1 /\ e.job.form = "go" /\ e.score > e.job.failed_at
  /\ \E q \in QueueSet :
       /\ queue[q] # <<>>
       /\ Head(queue[q]).retry = 1
       /\ Head(queue[q]).failed_at > 0

(***************************************************************************)
(* C27 (StoreSpec).  With no MoveToDLQ call in progress the dead set holds *)
(* at most DeadCap entries, and they are the newest by rank: a MoveToDLQ   *)
(* call whose ZADD goes through sets failed_at = now and adds the record   *)
(* with score now, and its trim leaves in dead the DeadCap highest-ranked  *)
(* entries -- also when the trim command reports an error.                 *)
(***************************************************************************)
C27_DeadSetCapped ==
  /\ [](cpc = "idle" => Cardinality(dead) <= DeadCap)
  /\ [][\A dt \in {0, 1} :
         MoveToDLQ(dt, FALSE)
           => LET p == Encode([cjob EXCEPT !.failed_at = Unix(now)])
              IN dead' = {e \in dead : e.job # p}
                           \cup {[job |-> p, score |-> Unix(now')]}]_vars
  /\ [][\A trimFails \in BOOLEAN :
         MoveToDLQTrim(trimFails)
           => dead' = {e \in dead :
                        Cardinality({f \in dead : RankLess(e, f)})
                          < DeadCap}]_vars

(***************************************************************************)
(* C28 (StoreSpec).  A record popped by PollJobs and written back by       *)
(* EnqueueRetry or MoveToDLQ keeps every field of the popped payload,      *)
(* the fields SidekiqJob does not declare included; only retry, failed_at  *)
(* and the error fields may differ.                                        *)
(***************************************************************************)
C28_UnknownFieldsPreserved ==
  /\ [][\A delay \in Delays, dt \in Elapsed :
         EnqueueRetry(delay, dt, FALSE)
           => LET written ==
                    IF delay > 0
                      THEN {e.job : e \in schedule' \ schedule}
                      ELSE {Head(queue'[cjob.queue])}
              IN \A p \in written :
                   /\ p.jid = cjson.jid
                   /\ p.queue = cjson.queue
                   /\ p.extra = cjson.extra]_vars
  /\ [][\A dt \in {0, 1} :
         MoveToDLQ(dt, FALSE)
           => \A e \in dead' \ dead :
                /\ e.job.jid = cjson.jid
                /\ e.job.queue = cjson.queue
                /\ e.job.extra = cjson.extra]_vars

(***************************************************************************)
(* C25 (GrpcSpec).  After MaxFailures failed ExecuteJob calls in a row on  *)
(* the gRPC client, the next ExecuteJob returns the circuit-open error     *)
(* and sends nothing to the executor.                                      *)
(***************************************************************************)
C25_BreakerGuardsGrpc ==
  [][\A c \in Callers :
      (GrpcSend(c) /\ gStreak >= MaxFailures)
        => /\ xret'[c] = "circuit_open"
           /\ xpc'[c] = "idle"
           /\ sent'[c] = 0]_vars

(***************************************************************************)
(* C24 (FieldSpec).  While the worker runs, an entry of schedule whose     *)
(* score is <= now is eventually promoted to its list by the worker's      *)
(* sweep, and its job is then polled.                                      *)
(***************************************************************************)
C24_DueEntryEventuallyPromoted ==
  \A j \in Jobs :
    Due(j) ~> (InQueue(j) \/ j \in PoppedJobs \/ mainCancelled)

(***************************************************************************)
(* C29 (FieldSpec).  PollJobs returns nil without an error when the pop    *)
(* times out on empty lists, and an error when the store call fails or     *)
(* the popped payload does not decode; in the last case the payload is     *)
(* gone from its list and from the store; after an error the loop backs    *)
(* off and goes on with its next iteration instead of ending (while the    *)
(* process runs).                                                          *)
(***************************************************************************)
C29_PollOutcomes ==
  /\ [][(lpc = "poll" /\ lpc' = "sleep_idle")
          => (NonEmptyIdx = {} /\ queue' = queue /\ cur' = cur)]_vars
  /\ [][(lpc = "poll" /\ lpc' # "poll" /\ NonEmptyIdx # {}
          /\ queue' # queue /\ ~Decodes(Head(queue[FirstNonEmpty])))
          => /\ lpc' = "sleep_err"
             /\ queue' = [queue EXCEPT ![FirstNonEmpty] = Tail(@)]
             /\ schedule' = schedule /\ dead' = dead
             /\ dropped' = dropped + 1
             /\ cur' = cur /\ popped' = popped]_vars
  /\ [][(lpc = "poll" /\ lpc' = "sleep_err")
          => (queue' = queue \/ dropped' = dropped + 1)]_vars
  /\ [][(lpc = "poll" /\ lpc' = "pj_check")
          => /\ NonEmptyIdx # {}
             /\ Decodes(Head(queue[FirstNonEmpty]))
             /\ cur' = Decode(Head(queue[FirstNonEmpty]))]_vars
  /\ [][lpc = "sleep_err" => lpc' \in {"sleep_err", "select"}]_vars
  /\ (lpc = "sleep_err") ~> (lpc = "select" \/ ~Alive)

\* a payload that does not decode was dropped, and the loop is polling again
C29_Witness ==
  /\ dropped > 0
  /\ lpc = "poll"
  /\ ~mainCancelled

(***************************************************************************)
(* C31 (SidecarSpec).  In state half_open, a call that ends with           *)
(* RecordSuccess leaves the breaker closed with failures = 0, and a call   *)
(* that ends with RecordFailure leaves it open with last_fail = now.       *)
(***************************************************************************)
C31_HalfOpenOutcome ==
  [][\A c \in Callers :
      (Returns(c) /\ cbState = "half_open")
        => IF xret'[c] \in {"success", "failure"}
             THEN cbState' = "closed" /\ cbFailures' = 0
             ELSE /\ cbState' = "open"
                  /\ cbLastFail' = now
                  /\ cbFailures' = cbFailures + 1]_vars

\* the breaker was probed after the reset timeout and the probe failed: it
\* is open again, with the timer restarted
C31_Witness ==
  /\ cbState = "open"
  /\ cbLastFail = now
  /\ now > ResetTimeout
  /\ cbFailures = MaxFailures + 1
  /\ \E c \in Callers : xret[c] = "error"

\* caller c's ExecuteJob returns an error in this step, after the breaker
\* let it through
ReturnsError(c) ==
  \/ Returns(c) /\ xret'[c] = "error"
  \/ ExecAllow(c) /\ xret'[c] = "build_error"

(***************************************************************************)
(* C32 (SidecarSpec), as stated.  An ExecuteJob call that passed the       *)
(* breaker records exactly one outcome, when it returns: one failure when  *)
(* it returns an error, one success when it returns a result; its          *)
(* attempts before that record nothing.  The first part fails for a call   *)
(* whose request cannot be built: it returns an error and records          *)
(* nothing.                                                                *)
(***************************************************************************)
C32_OneOutcomePerCall ==
  /\ [][\A c \in Callers :
         Retries(c) => UNCHANGED <<cbState, cbFailures, cbLastFail, cbStreak>>]_vars
  /\ [][\A c \in Callers :
         Returns(c)
           => IF xret'[c] = "error"
                THEN /\ cbFailures' = cbFailures + 1
                     /\ cbStreak' = cbStreak + 1
                     /\ lastResp'[c] \in {"s4xx", "ok_garbage", "s3xx_garbage"}
                          \/ (Retryable(lastResp'[c])
                               /\ sent[c] + 1 = 1 + MaxRetries)
                ELSE /\ cbFailures' = 0
                     /\ cbStreak' = 0
                     /\ xret'[c] \in {"success", "failure"}]_vars
  /\ [][\A c \in Callers :
         (ExecAllow(c) /\ cbStreak >= MaxFailures /\ ~ResetElapsed)
           => (xret'[c] = "circuit_open" /\ sent'[c] = 0
               /\ xpc'[c] = "idle")]_vars
  /\ [](cbStreak >= MaxFailures => cbState # "closed")
  /\ [][\A c \in Callers :
         ReturnsError(c) => cbFailures' = cbFailures + 1]_vars

(***************************************************************************)
(* C32 (SidecarSpec), amended.  An ExecuteJob call that passed the breaker *)
(* and sent a request records exactly one outcome, when it returns: one    *)
(* failure when it returns an error (after 4 requests answered 5xx or      *)
(* connection failure, after a 4xx, after a body that does not decode),    *)
(* one success when it returns a result; its attempts before that record   *)
(* nothing.  A call whose request cannot be built returns an error with    *)
(* no request sent and no outcome recorded.  So after max_failures calls   *)
(* that each got four 5xx answers the breaker is open, and a call made     *)
(* then is turned away without a request.                                  *)
(***************************************************************************)
C32_OneOutcomePerCall_WhenSent ==
  /\ [][\A c \in Callers :
         Retries(c) => UNCHANGED <<cbState, cbFailures, cbLastFail, cbStreak>>]_vars
  /\ [][\A c \in Callers :
         Returns(c)
           => IF xret'[c] = "error"
                THEN /\ cbFailures' = cbFailures + 1
                     /\ cbStreak' = cbStreak + 1
                     /\ lastResp'[c] \in {"s4xx", "ok_garbage", "s3xx_garbage"}
                          \/ (Retryable(lastResp'[c])
                               /\ sent[c] + 1 = 1 + MaxRetries)
                ELSE /\ cbFailures' = 0
                     /\ cbStreak' = 0
                     /\ xret'[c] \in {"success", "failure"}]_vars
  /\ [][\A c \in Callers :
         (ExecAllow(c) /\ cbStreak >= MaxFailures /\ ~ResetElapsed)
           => (xret'[c] = "circuit_open" /\ sent'[c] = 0
               /\ xpc'[c] = "idle")]_vars
  /\ [](cbStreak >= MaxFailures => cbState # "closed")
  /\ [][\A c \in Callers :
         (ExecAllow(c) /\ xret'[c] = "build_error")
           => /\ AllowRequest
              /\ sent'[c] = 0 /\ xpc'[c] = "idle"
              /\ UNCHANGED <<cbFailures, cbLastFail, cbStreak>>]_vars

\* max_failures calls in a row ended on a 5xx answer, the breaker is open
\* with exactly that many failures, and the next call was turned away
C32_Witness ==
  /\ cbState = "open"
  /\ cbStreak = MaxFailures
  /\ cbFailures = MaxFailures
  /\ \E c \in Callers : xret[c] = "circuit_open" /\ sent[c] = 0
  /\ \E c \in Callers : xret[c] = "error" /\ lastResp[c] = "s5xx"

(***************************************************************************)
(* C33 (StoreSpec).  For every EnqueueRetry with delay > 0 the score of    *)
(* the entry written to schedule is within 1 second of the encoded         *)
(* record's failed_at + delay, with score and failed_at in whole epoch     *)
(* seconds as the code computes them; delays below one second included.    *)
(* (Compared in ticks: delay is in ticks, score and failed_at are in       *)
(* seconds.)  It fails: the score comes from a second reading of the       *)
(* clock, and the fraction of the first reading, the time between the      *)
(* readings and the fraction of the delay can add up to two seconds.       *)
(***************************************************************************)
C33_ScoreNearFailedAtPlusDelay ==
  [][\A delay \in Delays \ {0}, dt \in Elapsed :
      EnqueueRetry(delay, dt, FALSE)
        => /\ \E e \in schedule' :
                e.job.jid = cjob.jid /\ e.job.retry = cjob.retry + 1
           /\ \A e \in schedule' :
                (e.job.jid = cjob.jid /\ e.job.retry = cjob.retry + 1)
                  => LET at == e.score * TicksPerSecond
                         want == e.job.failed_at * TicksPerSecond + delay
                     IN /\ at - want <= TicksPerSecond
                        /\ want - at <= TicksPerSecond]_vars

(***************************************************************************)
(* C38 (StoreSpec).  An EnqueueRetry whose store write fails returns an    *)
(* error and leaves the job record as it was before the call: retry and    *)
(* failed_at unchanged, and nothing written to the store.                  *)
(***************************************************************************)
C38_FailedWriteLeavesRecord ==
  [][\A delay \in Delays, dt \in Elapsed :
      EnqueueRetry(delay, dt, TRUE)
        => /\ cerr' = "err"
           /\ cjob'.retry = cjob.retry
           /\ cjob'.failed_at = cjob.failed_at
           /\ UNCHANGED <<queue, schedule, dead>>]_vars

(***************************************************************************)
(* C36 (SidecarSpec).  The breaker leaves state open only to half_open,    *)
(* through an AllowRequest made once reset_timeout has passed; it never    *)
(* goes from open to closed, also when a request that was in flight when   *)
(* the breaker opened records a success.                                   *)
(***************************************************************************)
C36_OpenLeavesOnlyToHalfOpen ==
  [][(cbState = "open" /\ cbState' # "open")
      => /\ cbState' = "half_open"
         /\ now - cbLastFail >= ResetTimeout
         /\ \E c \in Callers : ExecAllow(c)]_vars

(***************************************************************************)
(* C37 (SidecarSpec).  In every reachable state of the breaker, with       *)
(* concurrent callers: closed implies failures < max_failures; open and    *)
(* half_open imply failures >= max_failures.                               *)
(***************************************************************************)
C37_StateMatchesCount ==
  /\ cbState = "closed" => cbFailures < MaxFailures
  /\ cbState \in {"open", "half_open"} => cbFailures >= MaxFailures
  /\ cbState \in {"closed", "open", "half_open"}

\* the breaker is half_open with every caller's request in flight
C37_Witness ==
  /\ cbState = "half_open"
  /\ cbFailures >= MaxFailures
  /\ \A c \in Callers : xpc[c] = "do"

(***************************************************************************)
(* C34 (Spec).  Once Shutdown has returned ok no job is executing, and     *)
(* nothing is admitted or started afterwards: no token is taken and no     *)
(* job goroutine is spawned, also not by a ProcessJob call that passed     *)
(* the running check before Shutdown cleared the flag.                     *)
(***************************************************************************)
C34_NoWorkAfterDrain ==
  /\ [](sdRes = "ok" => \A j \in Jobs : task[j] # "exec")
  /\ [][sdRes = "ok"
         => /\ ch' <= ch
            /\ active' <= active
            /\ \A j \in Jobs : task[j] = "none" => task'[j] = "none"]_vars

(***************************************************************************)
(* C35 (ReentrySpec).  A Shutdown call returns ok only when no admitted    *)
(* job is still executing: the first call when every job admitted before   *)
(* it has finished, and a second call, made while the first one drains or  *)
(* after it timed out, when no job is in the executor.                     *)
(***************************************************************************)
C35_EveryOkShutdownDrained ==
  /\ [][(sdRes = "none" /\ sdRes' = "ok")
         => \A j \in sdAdmitted : task'[j] = "finished"]_vars
  /\ [][(sdAgain = "none" /\ sdAgain' = "ok")
         => \A j \in Jobs : submit[j] = "ok" => task'[j] # "exec"]_vars

(***************************************************************************)
(* C39 (Spec), as stated.  In every quiescent state of the semaphore the   *)
(* active count equals the number of tokens in the channel and the         *)
(* counter of the drain wait group, and in the processor it equals the     *)
(* number of spawned job goroutines that have not yet released their       *)
(* token.  The last part fails between Acquire's return and the go         *)
(* statement of ProcessJob: a token is held and its goroutine is not yet   *)
(* spawned.                                                                *)
(***************************************************************************)
C39_QuiescentCountsAgree ==
  SemQuiescent
    => /\ ActiveCount = ch
       /\ ActiveCount = swg
       /\ ActiveCount = Cardinality(Started)

(***************************************************************************)
(* C39 (Spec), amended.  In every quiescent state of the semaphore the     *)
(* active count equals the number of tokens in the channel and the         *)
(* counter of the drain wait group, and in the processor it equals the     *)
(* number of spawned job goroutines that have not yet released their       *)
(* token, plus one while a ProcessJob call has returned from Acquire and   *)
(* has not yet spawned its goroutine.                                      *)
(***************************************************************************)
C39_QuiescentCountsAgree_WithPending ==
  SemQuiescent
    => /\ ActiveCount = ch
       /\ ActiveCount = swg
       /\ ActiveCount
            = Cardinality(Started) + (IF lpc = "pj_spawn" THEN 1 ELSE 0)

\* every token is held by a running job, nothing is in progress
C39_Witness ==
  /\ SemQuiescent
  /\ lpc # "pj_spawn"
  /\ ActiveCount = SemCapacity
  /\ Cardinality(Started) = SemCapacity
  /\ \E j \in Jobs : task[j] = "finished"

====
